---- MODULE Spec2Model ----
(***************************************************************************)
(* Five Minds: the dependency-wave planner (HeadMaster), the wave executor *)
(* (FiveMinds._execute_tickets_in_waves), the Runner sandbox lifecycle and *)
(* the review gate (Reviewer.review_result, FiveMinds._review_results).    *)
(*                                                                         *)
(* Ticket ids are naturals: decompose_objective numbers them from 1        *)
(* ("TKT-001", ...), so id 0 belongs to no ticket.  A Ticket object is     *)
(* referenced by its id; Ticket.dependencies is a list that the code only  *)
(* iterates with all(...), so it is kept as the set of its elements.       *)
(***************************************************************************)
EXTENDS Integers, Sequences, FiniteSets, TLC

VARIABLES
    requirements,    \* objective.requirements: TRUE where the text has a setup keyword
    tickets,         \* self.tickets: sequence of Ticket records
    waves,           \* optimize_parallelization: waves[k+1] is the list under "wave_k"
    processed,       \* optimize_parallelization: local set of processed ids
    warned,          \* the planner logged "Unable to process remaining tickets"
    pc,              \* position of the orchestrator thread
    max_runners,     \* FiveMinds.max_runners
    autonomous,      \* FiveMinds.autonomous
    stop_requested,  \* FiveMinds._stop_requested
    cur,             \* _execute_tickets_in_waves: number of the wave being run (1-based)
    sub,             \* tickets of the current wave already submitted
    queue,           \* work queue of the current ThreadPoolExecutor
    fut,             \* per ticket: state of its future / of its execute_ticket call
    sandbox_path,    \* per runner (one per ticket): Runner.sandbox_path, 0 is None
    dirs,            \* sandbox directories that exist on disk
    results,         \* FiveMinds.results, as the set of its RunnerResult values
    commits,         \* per ticket: how the commit post-step ended
    fault,           \* per ticket: str(e) of the exception execute_ticket caught, if any
    suite,           \* what the repository's test command does in a sandbox
    reviews,         \* FiveMinds.reviews, as the set of its ReviewResult values
    summary,         \* the dictionary execute returns, <<>> until it is built
    adapter,         \* the tool adapter instance: its kind and its self.timeout
    tool_logs,       \* the _logs list of the adapter instance
    command_history, \* the _command_history list of a ShellTools instance
    last,            \* the last call on the adapter and what it gave back
    files,           \* the files on disk: location -> lines
    ui_server,       \* FiveMinds.ui_server is set (enable_ui)
    ticket_updates   \* per ticket: the statuses passed to UIServer.update_ticket

planvars == <<requirements, tickets, waves, processed, warned, pc>>
execvars == <<max_runners, autonomous, stop_requested, cur, sub, queue, fut,
              sandbox_path, dirs, results, commits, fault, suite, reviews, summary>>
toolvars == <<adapter, tool_logs, command_history, last, files>>
uivars == <<ui_server, ticket_updates>>
vars == <<planvars, execvars, toolvars, uivars>>

\* ---------------------------------------------------------------- bounds
MaxTickets == 4
MaxEdges == 4
MaxRequirements == 2
MaxRunners == 2
MaxCriteria == 3
MaxPassed == 3
MaxFailed == 2
MaxSkipped == 1
MaxLogs == 2

\* ---------------------------------------------------------------- helpers
Range(s) == {s[i] : i \in DOMAIN s}

TicketIds(ts) == {ts[i].id : i \in DOMAIN ts}

\* models.py Ticket: a fresh ticket is pending and has no runner (0 is None);
\* acceptance_criteria keeps the met flag of each criterion, and a ticket of
\* decompose_objective has three unmet ones (headmaster.py lines 137-150)
Ticket(i, deps) ==
    [id |-> i, dependencies |-> deps, status |-> "pending", priority |-> "medium",
     assigned_runner |-> 0, acceptance_criteria |-> <<FALSE, FALSE, FALSE>>]

\* ------------------------------------------------- planner (headmaster.py)
\* variants of the eligibility test of lines 217-225, each a plausible slip
current_wave_noskip(ts, proc) ==
    SelectSeq(ts, LAMBDA t : t.dependencies \subseteq proc)

current_wave_known(ts, proc) ==
    SelectSeq(ts, LAMBDA t : t.id \notin proc
                             /\ (t.dependencies \cap TicketIds(ts)) \subseteq proc)

current_wave_first(ts, proc) ==
    LET cw == SelectSeq(ts, LAMBDA t : t.id \notin proc /\ t.dependencies \subseteq proc)
    IN  IF cw = <<>> THEN cw ELSE <<Head(cw)>>

current_wave_any(ts, proc) ==
    SelectSeq(ts, LAMBDA t : t.id \notin proc /\ t.dependencies \cap proc # {})

\* lines 215-225: one pass of the for loop, in ticket-list order
current_wave(ts, proc) ==
    SelectSeq(ts, LAMBDA t : t.id \notin proc /\ t.dependencies \subseteq proc)

WaveIds(w) == [i \in DOMAIN w |-> w[i].id]

\* line 214
LoopCondition == Cardinality(processed) < Len(tickets)

\* lines 214-234: an iteration that finds a non-empty wave
PlanWave ==
    /\ pc = "plan"
    /\ LoopCondition
    /\ LET cw == current_wave(tickets, processed) IN
        /\ cw # <<>>
        /\ waves' = Append(waves, WaveIds(cw))
        /\ processed' = processed \cup Range(WaveIds(cw))
    /\ UNCHANGED <<requirements, tickets, warned, pc, execvars, toolvars, uivars>>

\* lines 227-230: empty wave, warn and break; line 237: return
PlanBreak ==
    /\ pc = "plan"
    /\ LoopCondition
    /\ current_wave(tickets, processed) = <<>>
    /\ warned' = TRUE
    /\ pc' = "planned"
    /\ UNCHANGED <<requirements, tickets, waves, processed, execvars, toolvars, uivars>>

\* line 214 false, line 237: return
PlanReturn ==
    /\ pc = "plan"
    /\ ~LoopCondition
    /\ pc' = "planned"
    /\ UNCHANGED <<requirements, tickets, waves, processed, warned, execvars, toolvars, uivars>>

\* --------------------------------------------- test results and log lines
\* RunnerResult.test_results: present is the truth value of the field at
\* reviewer.py lines 76 and 150 (None and the empty dict are false)
NoTests == [present |-> FALSE, total |-> 0, passed |-> 0, failed |-> 0]

\* shell.py lines 344-373: the counts parsed from the output of the test
\* command; total is their sum (a framework without a skipped count has s = 0,
\* one without a parser leaves every count 0)
Counts(p, f, s) == [present |-> TRUE, total |-> p + f + s, passed |-> p, failed |-> f]

\* runner.py lines 243-252: the fallback when no real counts were obtained
Simulated == [present |-> TRUE, total |-> 5, passed |-> 5, failed |-> 0]

\* A log line is kept as the one text of interest it contains.
LogLines == {"plain", "TODO", "todo", "follow-up", "Follow-Up"}

\* str.lower on a log line
Lower(l) == CASE l = "TODO" -> "todo"
              [] l = "Follow-Up" -> "follow-up"
              [] OTHER -> l

\* Every sandbox is a copy of the same repository and _implement_ticket
\* changes no file, so the test command behaves alike in every sandbox:
\* tests is what _run_tests returns (runner.py lines 229-252), output is the
\* text of the "Test results: ..." log line (line 133), which embeds stdout.
Suites ==
    {[tests |-> Simulated, output |-> "plain"],
     [tests |-> Counts(0, 0, 0), output |-> "plain"],
     [tests |-> Counts(0, 0, 0), output |-> "TODO"],
     [tests |-> Counts(1, 1, 0), output |-> "Follow-Up"]}

\* The pipeline builds its tool adapters inside the runners; the adapters are
\* specified on their own (SpecTools) and are idle in every other
\* specification.
NoTools ==
    /\ adapter = <<>>
    /\ tool_logs = <<>>
    /\ command_history = <<>>
    /\ last = <<>>
    /\ files = <<>>

\* orchestrator.py line 70: without enable_ui there is no dashboard
NoUI ==
    /\ ui_server = FALSE
    /\ ticket_updates = <<>>

\* ---------------------------------------- state of the executor at construction
\* orchestrator.py lines 60-67 and the locals of _execute_tickets_in_waves
InitExecVars(n) ==
    /\ stop_requested = FALSE
    /\ cur = 0
    /\ sub = 0
    /\ queue = <<>>
    /\ fut = [i \in 1..n |-> "none"]
    /\ sandbox_path = [i \in 1..n |-> 0]
    /\ dirs = {}
    /\ results = {}
    /\ commits = [i \in 1..n |-> "none"]
    /\ fault = [i \in 1..n |-> "none"]
    /\ reviews = {}
    /\ summary = <<>>

\* ------------------------------------------- inputs of the planner alone
\* a dependency edge <<i, d>>: ticket i lists id d (0 is an id no ticket has)
AllEdges(n) == (1..n) \X (0..n)

RECURSIVE EdgeSets(_, _)
EdgeSets(E, k) ==
    IF k = 0 THEN {{}}
    ELSE LET S == EdgeSets(E, k - 1) IN S \cup {s \cup {e} : s \in S, e \in E}

TicketList(n, es) ==
    [i \in 1..n |-> Ticket(i, {e[2] : e \in {x \in es : x[1] = i}})]

InitPlan ==
    /\ requirements = <<>>
    /\ \E n \in 1..MaxTickets : \E es \in EdgeSets(AllEdges(n), MaxEdges) :
          tickets = TicketList(n, es)
    /\ waves = <<>>
    /\ processed = {}
    /\ warned = FALSE
    /\ pc = "plan"
    /\ InitExecVars(Len(tickets))
    /\ max_runners = 1
    /\ autonomous = TRUE
    /\ suite = [tests |-> Simulated, output |-> "plain"]
    /\ NoTools
    /\ NoUI

NextPlan == PlanWave \/ PlanBreak \/ PlanReturn

SpecPlan == InitPlan /\ [][NextPlan]_vars

\* the planner is one sequential call: it keeps taking steps until it returns
SpecPlanFair == SpecPlan /\ WF_vars(NextPlan)

\* --------------------------------------- pipeline of execute (orchestrator.py)
\* headmaster.py lines 128-169: one pending ticket per requirement, numbered from 1
decompose_objective(reqs) == [i \in 1..Len(reqs) |-> Ticket(i, {})]

\* headmaster.py lines 186-193: every ticket after a setup ticket depends on it
identify_dependencies(reqs, ts) ==
    [j \in DOMAIN ts |->
        [ts[j] EXCEPT !.priority = IF reqs[j] THEN "high" ELSE @,
                      !.dependencies = @ \cup {ts[i].id : i \in {k \in 1..(j - 1) : reqs[k]}}]]

\* execute, line 168
Decompose ==
    /\ pc = "decompose"
    /\ tickets' = decompose_objective(requirements)
    /\ pc' = "identify"
    /\ UNCHANGED <<requirements, waves, processed, warned, execvars, toolvars, uivars>>

\* execute, line 176
IdentifyDependencies ==
    /\ pc = "identify"
    /\ tickets' = identify_dependencies(requirements, tickets)
    /\ pc' = "plan"
    /\ UNCHANGED <<requirements, waves, processed, warned, execvars, toolvars, uivars>>

\* FiveMinds.stop, called from another thread at any moment
Stop ==
    /\ ~stop_requested
    /\ pc # "done"
    /\ stop_requested' = TRUE
    /\ UNCHANGED <<planvars, max_runners, autonomous, cur, sub, queue, fut,
                   sandbox_path, dirs, results, commits, fault, suite, reviews, summary, toolvars, uivars>>

\* ------------------------------------------------ Runner (runner.py)
\* variant of cleanup_sandbox that forgets to reset sandbox_path
cleanup_sandbox_keep_path(path, ds) ==
    IF path # 0 /\ path \in ds
    THEN [sandbox_path |-> path, dirs |-> ds \ {path}, raised |-> FALSE]
    ELSE [sandbox_path |-> path, dirs |-> ds, raised |-> FALSE]

\* lines 299-306: remove the tree if the path is set and exists, then unset it
cleanup_sandbox(path, ds) ==
    IF path # 0 /\ path \in ds
    THEN [sandbox_path |-> 0, dirs |-> ds \ {path}, raised |-> FALSE]
    ELSE [sandbox_path |-> path, dirs |-> ds, raised |-> FALSE]

\* the wave and the position at which the planner placed ticket t
WaveOf(t) == CHOOSE k \in DOMAIN waves : t \in Range(waves[k])
IndexOf(t) == CHOOSE i \in DOMAIN waves[WaveOf(t)] : waves[WaveOf(t)][i] = t

\* orchestrator.py line 263: the runner of the idx-th ticket of a wave is R{idx+1}
RunnerId(t) == IndexOf(t)

SetTicket(ts, t, status, runner) ==
    [i \in DOMAIN ts |->
        IF ts[i].id = t THEN [ts[i] EXCEPT !.status = status, !.assigned_runner = runner]
        ELSE ts[i]]

Running == {t \in DOMAIN fut : fut[t] \in {"started", "sandboxed"}}

\* variant of the pool's admission test that is off by one
worker_available_offbyone == Cardinality(Running) <= max_runners

\* line 258: ThreadPoolExecutor(max_workers=max_runners) runs a queued call only
\* on one of its max_workers threads
worker_available == Cardinality(Running) < max_runners

\* a pool thread takes the oldest queued call; execute_ticket lines 98-108
StartTicket ==
    /\ queue # <<>>
    /\ worker_available
    /\ LET t == Head(queue) IN
        /\ queue' = Tail(queue)
        /\ fut' = [fut EXCEPT ![t] = "started"]
        /\ tickets' = SetTicket(tickets, t, "in_progress", RunnerId(t))
    /\ UNCHANGED <<requirements, waves, processed, warned, pc, max_runners, autonomous,
                   stop_requested, cur, sub, sandbox_path, dirs, results, commits, fault, suite, reviews, summary, toolvars, uivars>>

\* execute_ticket lines 110-113 with create_sandbox lines 55-86; a fault of
\* mkdtemp leaves nothing behind, a fault of the copy leaves the directory;
\* either one is caught at lines 151-166
CreateSandbox(t) ==
    /\ fut[t] = "started"
    /\ sandbox_path[t] = 0
    /\ \E outcome \in {"ok", "mkdtemp_raised", "copy_raised"} :
        /\ IF outcome = "mkdtemp_raised"
           THEN UNCHANGED <<sandbox_path, dirs>>
           ELSE /\ sandbox_path' = [sandbox_path EXCEPT ![t] = t]
                /\ dirs' = dirs \cup {t}
        /\ IF outcome = "ok"
           THEN /\ fut' = [fut EXCEPT ![t] = "sandboxed"]
                /\ UNCHANGED <<tickets, fault>>
           ELSE /\ fut' = [fut EXCEPT ![t] = "returned_failed"]
                /\ fault' = [fault EXCEPT ![t] = outcome]
                /\ tickets' = SetTicket(tickets, t, "failed", RunnerId(t))
    /\ UNCHANGED <<requirements, waves, processed, warned, pc, max_runners, autonomous,
                   stop_requested, cur, sub, queue, results, commits, suite, reviews, summary, toolvars, uivars>>

\* _implement_ticket, lines 182-187: every criterion of the ticket is marked met
implement_ticket(ts, t) ==
    [i \in DOMAIN ts |->
        IF ts[i].id = t
        THEN [ts[i] EXCEPT !.acceptance_criteria = [k \in DOMAIN @ |-> TRUE]]
        ELSE ts[i]]

\* execute_ticket lines 115-149 (the unit of work returns) or 151-166 (it
\* raised); _implement_ticket has no statement that raises an Exception, so a
\* fault of the unit of work comes from the test run that follows it
Work(t) ==
    /\ fut[t] = "sandboxed"
    /\ \E outcome \in {"ok", "tests_raised"} :
        /\ fut' = [fut EXCEPT ![t] = IF outcome = "ok" THEN "returned_ok"
                                                        ELSE "returned_failed"]
        /\ fault' = [fault EXCEPT ![t] = IF outcome = "ok" THEN "none" ELSE outcome]
        /\ tickets' = SetTicket(implement_ticket(tickets, t), t,
                                IF outcome = "ok" THEN "needs_review" ELSE "failed",
                                RunnerId(t))
    /\ UNCHANGED <<requirements, waves, processed, warned, pc, max_runners, autonomous,
                   stop_requested, cur, sub, queue, sandbox_path, dirs, results, commits,
                   suite, reviews, summary, toolvars, uivars>>

\* ------------------------------- FiveMinds._execute_tickets_in_waves
\* the runners of the wave just run; they are destroyed when the futures
\* dictionary that holds them is dropped (line 260 rebinds it, the return drops it)
DroppedRunners == IF cur = 0 THEN {} ELSE Range(waves[cur])

RECURSIVE DestroyAll(_, _, _)
\* Runner.__del__ (lines 308-312) on every runner of S
DestroyAll(S, paths, ds) ==
    IF S = {} THEN [sandbox_path |-> paths, dirs |-> ds]
    ELSE LET r == CHOOSE x \in S : TRUE
             c == cleanup_sandbox(paths[r], ds)
         IN  DestroyAll(S \ {r}, [paths EXCEPT ![r] = c.sandbox_path], c.dirs)

\* execute line 202: the call
ExecuteWaves ==
    /\ pc = "planned"
    /\ pc' = "loop"
    /\ UNCHANGED <<requirements, tickets, waves, processed, warned, execvars, toolvars, uivars>>

\* variant that does not look at the stop request
next_wave_ignoring_stop == cur < Len(waves)

\* lines 246-250: the for loop has a further wave and no stop was requested
next_wave == cur < Len(waves) /\ ~stop_requested

\* lines 246-250 (stop requested: break) and the end of the for loop
LoopExit ==
    /\ pc = "loop"
    /\ ~next_wave
    /\ pc' = "review"
    /\ LET d == DestroyAll(DroppedRunners, sandbox_path, dirs) IN
        /\ sandbox_path' = d.sandbox_path
        /\ dirs' = d.dirs
    /\ UNCHANGED <<requirements, tickets, waves, processed, warned, max_runners,
                   autonomous, stop_requested, cur, sub, queue, fut, results, commits, fault, suite, reviews, summary, toolvars, uivars>>

\* lines 246-260: next wave, new executor, new futures dictionary
BeginWave ==
    /\ pc = "loop"
    /\ next_wave
    /\ cur' = cur + 1
    /\ sub' = 0
    /\ pc' = "submit"
    /\ LET d == DestroyAll(DroppedRunners, sandbox_path, dirs) IN
        /\ sandbox_path' = d.sandbox_path
        /\ dirs' = d.dirs
    /\ UNCHANGED <<requirements, tickets, waves, processed, warned, max_runners,
                   autonomous, stop_requested, queue, fut, results, commits, fault, suite, reviews, summary, toolvars, uivars>>

\* ui/server.py lines 617-630, called under "if self.ui_server": the status
\* is handed to the dashboard
update_ticket(updates, t, status) ==
    IF ui_server THEN [updates EXCEPT ![t] = Append(@, status)] ELSE updates

\* lines 261-274: create the runner of the next ticket, submit its call and
\* report the ticket as in_progress
Submit ==
    /\ pc = "submit"
    /\ sub < Len(waves[cur])
    /\ LET t == waves[cur][sub + 1] IN
        /\ queue' = Append(queue, t)
        /\ fut' = [fut EXCEPT ![t] = "queued"]
        /\ ticket_updates' = update_ticket(ticket_updates, t, "in_progress")
    /\ sub' = sub + 1
    /\ pc' = IF sub + 1 = Len(waves[cur]) THEN "collect" ELSE "submit"
    /\ UNCHANGED <<requirements, tickets, waves, processed, warned, max_runners,
                   autonomous, stop_requested, cur, sandbox_path, dirs, results, commits, fault, suite, reviews, summary, toolvars, ui_server>>

\* variant of line 153 that reports a fixed text
error_msg_generic(e) == <<"Error executing ticket", "">>

\* runner.py line 153: f"Error executing ticket: {str(e)}", kept as the pair
\* of the fixed prefix and the text of the exception
error_msg(e) == <<"Error executing ticket: ", e>>

\* the value execute_ticket returned for t: lines 139-146 when nothing was
\* raised, lines 159-166 otherwise (error_message <<>> and NoTests are None)
RunnerResult(t) ==
    IF fault[t] = "none"
    THEN [ticket_id |-> t, success |-> TRUE, error_message |-> <<>>,
          test_results |-> suite.tests, logs |-> <<"plain", suite.output>>]
    ELSE [ticket_id |-> t, success |-> FALSE, error_message |-> error_msg(fault[t]),
          test_results |-> NoTests, logs |-> <<"plain", "plain">>]

\* variant that stores the result only once the commit did not raise
store_result_after_commit(res, r, commit) ==
    IF commit = "raised" THEN res
    ELSE {x \in res : x.ticket_id # r.ticket_id} \cup {r}

\* variant in which a commit that did not succeed marks the result as failed
store_result_commit_fails(res, r, commit) ==
    {x \in res : x.ticket_id # r.ticket_id}
        \cup {[r EXCEPT !.success = @ /\ commit \notin {"failed", "raised"}]}

\* line 281: self.results[ticket.id] = result, before the commit is attempted
store_result(res, r, commit) ==
    {x \in res : x.ticket_id # r.ticket_id} \cup {r}

\* variant that cleans up at the end of the try block instead of in finally
collect_cleanup_in_try(commit, path, ds) ==
    IF commit = "raised"
    THEN [sandbox_path |-> path, dirs |-> ds, raised |-> FALSE]
    ELSE cleanup_sandbox(path, ds)

\* lines 306-307: finally: runner.cleanup_sandbox()
collect_cleanup(commit, path, ds) == cleanup_sandbox(path, ds)

\* lines 285-290 with Runner.commit_changes lines 254-297: the ways the commit
\* post-step of a collected result can end.  Without a sandbox the call
\* returns success False (lines 267-268); with one it builds a GitTools
\* (line 272) and calls configure on it (line 275), a method tools/git.py
\* does not define, so the call raises and the orchestrator catches it
\* (orchestrator lines 289-290)
CommitOutcomes(t) ==
    IF autonomous /\ fut[t] = "returned_ok"
    THEN IF sandbox_path[t] = 0 THEN {"failed"} ELSE {"raised"}
    ELSE {"none"}

\* lines 277-307: one iteration of the as_completed loop
Collect(t) ==
    /\ pc = "collect"
    /\ t \in Range(waves[cur])
    /\ fut[t] \in {"returned_ok", "returned_failed"}
    /\ \E commit \in CommitOutcomes(t) :
        /\ results' = store_result(results, RunnerResult(t), commit)
        /\ commits' = [commits EXCEPT ![t] = commit]
        /\ LET c == collect_cleanup(commit, sandbox_path[t], dirs) IN
            /\ sandbox_path' = [sandbox_path EXCEPT ![t] = c.sandbox_path]
            /\ dirs' = c.dirs
        \* lines 292-295 at the end of the try block, lines 296-305 when
        \* the commit raised
        /\ ticket_updates' = update_ticket(ticket_updates, t,
                                  IF commit = "raised" THEN "failed" ELSE "needs_review")
    /\ fut' = [fut EXCEPT ![t] = "collected"]
    /\ UNCHANGED <<requirements, tickets, waves, processed, warned, pc, max_runners,
                   autonomous, stop_requested, cur, sub, queue, fault, suite, reviews, summary, toolvars, ui_server>>

\* variant that leaves the with block once every call has been picked up
wave_drained_started == queue = <<>>

\* variant that leaves the with block once every call has returned
wave_drained_returned ==
    \A t \in Range(waves[cur]) : fut[t] \in {"returned_ok", "returned_failed", "collected"}

\* line 277 ends when every future was yielded; line 258 exits with shutdown(wait=True)
wave_drained == \A t \in Range(waves[cur]) : fut[t] = "collected"

WaveEnd ==
    /\ pc = "collect"
    /\ wave_drained
    /\ pc' = "loop"
    /\ UNCHANGED <<requirements, tickets, waves, processed, warned, execvars, toolvars, uivars>>

\* ------------------------------------------------ Reviewer (reviewer.py)
\* lines 65-66
criteria_met(t) ==
    Cardinality({k \in DOMAIN t.acceptance_criteria : t.acceptance_criteria[k]})

criteria_total(t) == Len(t.acceptance_criteria)

\* lines 126-159, computed exactly: the score is the fraction num / den with
\* den = 100 * criteria total * tests total (a total of 0 counts as 1 in
\* den and its term adds nothing); line 159 caps the sum at 1.0
calculate_alignment_score(t, r) ==
    LET n == criteria_total(t)
        tr == r.test_results
        nn == IF n > 0 THEN n ELSE 1
        tt == IF tr.present /\ tr.total > 0 THEN tr.total ELSE 1
        den == 100 * nn * tt
        worked == IF r.success THEN 30 * nn * tt ELSE 0
        criteria == IF n > 0 THEN 40 * criteria_met(t) * tt ELSE 0
        tests == IF tr.present
                 THEN IF tr.total > 0 THEN 30 * tr.passed * nn ELSE 0
                 ELSE 15 * nn * tt
        num == worked + criteria + tests
    IN  [num |-> IF num > den THEN den ELSE num, den |-> den]

\* line 91: alignment_score < 0.7
below_threshold(score) == 10 * score.num < 7 * score.den

\* the id f"{ticket.id}-FU-{k}" (lines 208 and 223) as a number: the parent
\* id and k are its two digits in a base above both, so distinct pairs give
\* distinct ids and none is the id of a ticket of decompose_objective
FollowUpBase == MaxRequirements + MaxTickets + MaxLogs + 2

FollowUpId(parent, k) == parent * FollowUpBase + k

\* variant of lines 207-232 that leaves the dependencies of a follow-up empty
FollowUp_nodeps(parent, k, priority) ==
    [id |-> FollowUpId(parent, k), dependencies |-> {}, status |-> "pending",
     priority |-> priority, assigned_runner |-> 0, acceptance_criteria |-> <<FALSE>>]

\* lines 207-217 and 222-232: a follow-up is pending, has one unmet
\* criterion and depends on the ticket under review
FollowUp(parent, k, priority) ==
    [id |-> FollowUpId(parent, k), dependencies |-> {parent}, status |-> "pending",
     priority |-> priority, assigned_runner |-> 0, acceptance_criteria |-> <<FALSE>>]

\* variant of line 221 that looks for the lower-case marker in the raw line
has_marker_raw(l) == l = "TODO" \/ l = "follow-up"

\* line 221: 'TODO' in log or 'follow-up' in log.lower()
has_marker(l) == l = "TODO" \/ Lower(l) = "follow-up"

RECURSIVE scan_logs(_, _, _)
\* lines 220-232: one follow-up per log line with a marker, numbered after
\* the follow-ups that exist so far
scan_logs(t, logs, fus) ==
    IF logs = <<>> THEN fus
    ELSE scan_logs(t, Tail(logs),
                   IF has_marker(Head(logs))
                   THEN Append(fus, FollowUp(t.id, Len(fus) + 1, "medium"))
                   ELSE fus)

\* variant of lines 192-234 without the follow-up for failing tests
identify_follow_ups_logs_only(t, r) == scan_logs(t, r.logs, <<>>)

\* lines 192-234
identify_follow_ups(t, r) ==
    scan_logs(t, r.logs,
              IF r.test_results.present /\ r.test_results.failed > 0
              THEN <<FollowUp(t.id, 1, "high")>>
              ELSE <<>>)

\* variant of lines 56-93 without the test on failing tests
approved_ignores_tests(t, r, score) ==
    /\ r.success
    /\ ~(criteria_met(t) < criteria_total(t))
    /\ ~below_threshold(score)

\* variant of lines 56-93 in which nothing clears approved
approved_always(t, r, score) == TRUE

\* lines 56-93: approved starts TRUE and each of the four tests can clear it
approved(t, r, score) ==
    /\ r.success
    /\ ~(criteria_met(t) < criteria_total(t))
    /\ ~(r.test_results.present /\ r.test_results.failed > 0)
    /\ ~below_threshold(score)

\* variant of lines 106-111 that sends a rejected ticket back to pending
verdict_status_pending(ok) == IF ok THEN "completed" ELSE "pending"

\* variant of lines 106-111 that completes the ticket whatever the verdict
verdict_status_lenient(ok) == "completed"

\* variant of lines 106-111 that leaves a rejected ticket under review
verdict_status_unsettled(ok) == IF ok THEN "completed" ELSE "needs_review"

\* lines 106-111
verdict_status(ok) == IF ok THEN "completed" ELSE "failed"

\* lines 41-124: the ReviewResult and the status the ticket is given
review_result(t, r) ==
    LET score == calculate_alignment_score(t, r)
        ok == approved(t, r, score)
    IN  [review |-> [ticket_id |-> t.id, approved |-> ok, alignment_score |-> score,
                     follow_up_tickets |-> identify_follow_ups(t, r)],
         status |-> verdict_status(ok)]

\* orchestrator.py lines 309-319: the first ticket with the id
find_ticket_by_id(ts, t) ==
    ts[CHOOSE i \in DOMAIN ts : ts[i].id = t /\ \A j \in 1..(i - 1) : ts[j].id # t]

set_status(ts, t, status) ==
    [i \in DOMAIN ts |-> IF ts[i].id = t THEN [ts[i] EXCEPT !.status = status] ELSE ts[i]]

\* variant that puts the follow-ups in front of the tickets
extend_front(ts, fus) == fus \o ts

\* orchestrator.py lines 350-351: self.tickets.extend(review.follow_up_tickets)
extend(ts, fus) == ts \o fus

RECURSIVE review_results(_, _, _)
\* _review_results, orchestrator.py lines 327-356: the loop over
\* self.results in the order ids; each result is reviewed against its ticket,
\* the review is stored and its follow-ups are appended to self.tickets
review_results(ids, ts, rvs) ==
    IF ids = <<>> THEN [tickets |-> ts, reviews |-> rvs]
    ELSE LET r == CHOOSE x \in results : x.ticket_id = Head(ids)
             rv == review_result(find_ticket_by_id(ts, Head(ids)), r)
         IN  review_results(Tail(ids),
                            extend(set_status(ts, Head(ids), rv.status),
                                   rv.review.follow_up_tickets),
                            {x \in rvs : x.ticket_id # Head(ids)} \cup {rv.review})

\* the orders in which a dictionary with the keys S can be iterated
Orders(S) == {q \in [1..Cardinality(S) -> S] : Range(q) = S}

\* execute, orchestrator.py lines 211-212: the review phase.  self.results is iterated in the order in which the results were
\* stored; results keeps no order, so every order is taken into account.
ReviewResults ==
    /\ pc = "review"
    /\ \E ids \in Orders({r.ticket_id : r \in results}) :
        LET out == review_results(ids, tickets, reviews) IN
            /\ tickets' = out.tickets
            /\ reviews' = out.reviews
            \* lines 343-348: "completed" if review.approved else "failed"
            /\ ticket_updates' =
                   IF ui_server
                   THEN [t \in DOMAIN ticket_updates |->
                            IF t \in Range(ids)
                            THEN Append(ticket_updates[t],
                                        IF \E rv \in out.reviews :
                                               rv.ticket_id = t /\ rv.approved
                                        THEN "completed" ELSE "failed")
                            ELSE ticket_updates[t]]
                   ELSE ticket_updates
    /\ pc' = "integrate"
    /\ UNCHANGED <<requirements, waves, processed, warned, max_runners, autonomous,
                   stop_requested, cur, sub, queue, fut, sandbox_path, dirs, results,
                   commits, fault, suite, summary, toolvars, ui_server>>

\* ------------------------------------------ integration and summary
\* orchestrator.py lines 358-369
is_result_approved(rvs, t) == \E rv \in rvs : rv.ticket_id = t /\ rv.approved

\* orchestrator.py lines 371-401: nothing is applied, the status is fixed
integrate_and_test(res, rvs) ==
    [patches_applied |-> Cardinality({r \in res : is_result_approved(rvs, r.ticket_id)}),
     conflicts |-> 0,
     tests_passed |-> TRUE,
     integration_status |-> "success"]

\* reviewer.py line 284: approved / total if total > 0 else 0.0, as a fraction
approval_rate(ok, total) ==
    IF total > 0 THEN [num |-> ok, den |-> total] ELSE [num |-> 0, den |-> 1]

\* reviewer.py lines 263-293 (the average alignment score and the follow-up
\* count are log and display values and are left out)
create_summary(rvs) ==
    LET total == Cardinality(rvs)
        ok == Cardinality({rv \in rvs : rv.approved})
    IN  [total_reviews |-> total, approved |-> ok, rejected |-> total - ok,
         approval_rate |-> approval_rate(ok, total)]

\* variant that asks for more than the threshold
overall_success_strict(integration, review) ==
    /\ integration.integration_status = "success"
    /\ 10 * review.approval_rate.num > 8 * review.approval_rate.den

\* orchestrator.py line 421: integration succeeded and approval_rate >= 0.8
\* (num / den >= 8 / 10, den > 0)
overall_success(integration, review) ==
    /\ integration.integration_status = "success"
    /\ 10 * review.approval_rate.num >= 8 * review.approval_rate.den

CountStatus(ts, status) == Cardinality({i \in DOMAIN ts : ts[i].status = status})

\* orchestrator.py lines 403-474: the dictionary execute returns
generate_summary(ts, rvs, integration) ==
    LET review_summary == create_summary(rvs) IN
    [tickets |-> [total |-> Len(ts),
                  completed |-> CountStatus(ts, "completed"),
                  failed |-> CountStatus(ts, "failed"),
                  pending |-> CountStatus(ts, "pending")],
     review |-> review_summary,
     integration |-> integration,
     success |-> overall_success(integration, review_summary)]

\* execute, orchestrator.py lines 214-237: integration, summary, return
Finish ==
    /\ pc = "integrate"
    /\ summary' = generate_summary(tickets, reviews, integrate_and_test(results, reviews))
    /\ pc' = "done"
    /\ UNCHANGED <<requirements, tickets, waves, processed, warned, max_runners,
                   autonomous, stop_requested, cur, sub, queue, fut, sandbox_path, dirs,
                   results, commits, fault, suite, reviews, toolvars, uivars>>

\* requirements of the objective: TRUE marks a text with a setup keyword
RECURSIVE BoolSeqs(_)
BoolSeqs(n) ==
    IF n = 0 THEN {<<>>}
    ELSE {Append(q, b) : q \in BoolSeqs(n - 1), b \in BOOLEAN}

\* FiveMinds.__init__ (lines 55-67) followed by the entry of execute
Init ==
    /\ \E n \in 1..MaxRequirements :
        /\ requirements \in BoolSeqs(n)
        /\ InitExecVars(n)
    /\ tickets = <<>>
    /\ waves = <<>>
    /\ processed = {}
    /\ warned = FALSE
    /\ pc = "decompose"
    /\ max_runners \in 1..MaxRunners
    /\ autonomous \in BOOLEAN
    /\ suite \in Suites
    /\ NoTools
    /\ ui_server \in BOOLEAN
    /\ ticket_updates = [i \in DOMAIN fut |-> <<>>]

\* PlanBreak is left out: identify_dependencies only adds edges to earlier
\* tickets, so the planner never finds an empty wave here (PipelineNeverBreaks)
Next ==
    \/ Decompose \/ IdentifyDependencies
    \/ PlanWave \/ PlanReturn
    \/ ExecuteWaves \/ BeginWave \/ Submit \/ StartTicket
    \/ \E t \in DOMAIN fut : CreateSandbox(t)
    \/ \E t \in DOMAIN fut : Work(t)
    \/ \E t \in DOMAIN fut : Collect(t)
    \/ WaveEnd \/ LoopExit \/ Stop
    \/ ReviewResults \/ Finish

Spec == Init /\ [][Next]_vars

\* ------------------------------------------------- inputs of the review alone
\* the test results a RunnerResult can carry: None, or counts of a test run
TestResults ==
    {NoTests} \cup {Counts(p, f, k) : p \in 0..MaxPassed, f \in 0..MaxFailed,
                                       k \in 0..MaxSkipped}

RECURSIVE LogSeqs(_)
LogSeqs(n) ==
    IF n = 0 THEN {<<>>}
    ELSE LogSeqs(n - 1) \cup {Append(q, l) : q \in LogSeqs(n - 1), l \in LogLines}

\* _review_results entered with one executed ticket and its stored result:
\* any met flags on one to MaxCriteria criteria, either outcome of
\* execute_ticket, any test results and any log lines
InitReview ==
    /\ \E n \in 1..MaxCriteria : \E crit \in BoolSeqs(n) : \E ok \in BOOLEAN :
       \E tr \in TestResults : \E logs \in LogSeqs(MaxLogs) :
        /\ tickets = <<[Ticket(1, {}) EXCEPT
                            !.acceptance_criteria = crit,
                            !.assigned_runner = 1,
                            !.status = IF ok THEN "needs_review" ELSE "failed"]>>
        /\ fault = <<IF ok THEN "none" ELSE "tests_raised">>
        /\ results = {[ticket_id |-> 1, success |-> ok,
                       error_message |-> IF ok THEN <<>> ELSE error_msg("tests_raised"),
                       test_results |-> tr, logs |-> logs]}
    /\ requirements = <<FALSE>>
    /\ waves = <<<<1>>>>
    /\ processed = {1}
    /\ warned = FALSE
    /\ pc = "review"
    /\ max_runners = 1
    /\ autonomous = FALSE
    /\ stop_requested = FALSE
    /\ cur = 1
    /\ sub = 1
    /\ queue = <<>>
    /\ fut = <<"collected">>
    /\ sandbox_path = <<0>>
    /\ dirs = {}
    /\ commits = <<"none">>
    /\ suite = [tests |-> Simulated, output |-> "plain"]
    /\ reviews = {}
    /\ summary = <<>>
    /\ NoTools
    /\ NoUI

NextReview == ReviewResults \/ Finish

SpecReview == InitReview /\ [][NextReview]_vars

\* ----------------------------------------- the summary of a reviewed run
MaxReviews == 5

\* execute at line 214, after _review_results: up to MaxReviews executed and
\* reviewed tickets, each either succeeded (criteria met, simulated tests)
\* or failed in its runner; the tickets and reviews are the ones
\* _review_results leaves for these results (none of them has a follow-up)
InitSummary ==
    /\ \E k \in 0..MaxReviews : \E ok \in BoolSeqs(k) :
        /\ waves = IF k = 0 THEN <<>> ELSE <<[i \in 1..k |-> i]>>
        /\ LET r == [i \in 1..k |->
                        [ticket_id |-> i, success |-> ok[i],
                         error_message |-> IF ok[i] THEN <<>>
                                           ELSE error_msg("tests_raised"),
                         test_results |-> IF ok[i] THEN Simulated ELSE NoTests,
                         logs |-> <<"plain", "plain">>]]
               ts == [i \in 1..k |->
                        [Ticket(i, {}) EXCEPT
                            !.acceptance_criteria = [c \in DOMAIN @ |-> ok[i]],
                            !.assigned_runner = RunnerId(i),
                            !.status = IF ok[i] THEN "needs_review" ELSE "failed"]]
               rv == [i \in 1..k |-> review_result(ts[i], r[i])]
           IN  /\ results = Range(r)
               /\ tickets = [i \in 1..k |-> [ts[i] EXCEPT !.status = rv[i].status]]
               /\ reviews = {rv[i].review : i \in 1..k}
        /\ fault = [i \in 1..k |-> IF ok[i] THEN "none" ELSE "tests_raised"]
        /\ processed = 1..k
        /\ requirements = [i \in 1..k |-> FALSE]
        /\ fut = [i \in 1..k |-> "collected"]
        /\ sandbox_path = [i \in 1..k |-> 0]
        /\ commits = [i \in 1..k |-> "none"]
        /\ cur = Len(waves)
        /\ sub = k
    /\ warned = FALSE
    /\ pc = "integrate"
    /\ max_runners = 1
    /\ autonomous = FALSE
    /\ stop_requested = FALSE
    /\ queue = <<>>
    /\ dirs = {}
    /\ suite = [tests |-> Simulated, output |-> "plain"]
    /\ summary = <<>>
    /\ NoTools
    /\ NoUI

NextSummary == Finish

SpecSummary == InitSummary /\ [][NextSummary]_vars

\* ================================================= tool adapters (tools/)
\* One adapter instance and the calls made on it.  Optional values are
\* records: None has set = FALSE.
None == [set |-> FALSE, v |-> 0]
Some(x) == [set |-> TRUE, v |-> x]

\* Python truth of an Optional[int]: None and 0 are false
truthy(x) == x.set /\ x.v # 0

\* shell.py line 25 and git.py line 26
DEFAULT_TIMEOUT == 30

\* shell.py line 26
MAX_OUTPUT_LENGTH == 1048576

\* shell.py lines 124 and 126: len("\n... [output truncated]")
MARKER_LENGTH == 23

\* ToolResult (shell.py lines 29-35); the logs field, a copy of the
\* operation log at the return, is left out
ToolResult(success, output, error) ==
    [success |-> success, output |-> output, error |-> error]

NoError == [kind |-> "none"]

\* what a call gave back: a result, an exception, or nothing as long as the
\* call has not come back
Returned(result) == [returned |-> TRUE, raised |-> FALSE, result |-> result]
Raised(e) == [returned |-> FALSE, raised |-> TRUE, result |-> e]
Hangs == [returned |-> FALSE, raised |-> FALSE, result |-> <<>>]

\* ---------------------------------------------------- external commands
\* a captured stream: len characters, pad of them whitespace at its ends
RawTexts ==
    {[len |-> n, pad |-> 0] : n \in {0, MAX_OUTPUT_LENGTH, MAX_OUTPUT_LENGTH + 1}}
    \cup {[len |-> MAX_OUTPUT_LENGTH + 1, pad |-> 1]}

\* how long the command runs; ends = FALSE is a command that never ends
Durations ==
    {[ends |-> TRUE, d |-> 0], [ends |-> TRUE, d |-> DEFAULT_TIMEOUT],
     [ends |-> TRUE, d |-> DEFAULT_TIMEOUT + 1], [ends |-> FALSE, d |-> 0]}

\* the timeout argument of run and _run_git (Optional[int])
TimeoutArgs == {None, Some(0), Some(1), Some(DEFAULT_TIMEOUT + 1)}

\* the timeout given to the constructor (an int; 300 is the one the runner
\* uses, runner.py line 227)
InstanceTimeouts == {Some(0), Some(DEFAULT_TIMEOUT), Some(300)}

\* what subprocess.run meets: fault "not_found" is FileNotFoundError,
\* "os_error" any other exception of the call; otherwise the command runs
\* for dur, exits with code and leaves stdout and stderr
Commands ==
    {[fault |-> f, dur |-> [ends |-> TRUE, d |-> 0], code |-> 0,
      stdout |-> [len |-> 0, pad |-> 0], stderr |-> [len |-> 0, pad |-> 0]] :
        f \in {"not_found", "os_error"}}
    \cup {[fault |-> "none", dur |-> d, code |-> 0,
           stdout |-> [len |-> 0, pad |-> 0], stderr |-> [len |-> 0, pad |-> 0]] :
            d \in Durations}
    \cup {[fault |-> "none", dur |-> [ends |-> TRUE, d |-> 0], code |-> c,
           stdout |-> o, stderr |-> e] :
            c \in {0, 1}, o \in RawTexts, e \in RawTexts}

\* the commands that write nothing
Quiet == {c \in Commands : c.stdout.len = 0 /\ c.stderr.len = 0}

\* variant that takes the argument alone
cmd_timeout_arg_only(timeout, default) == timeout

\* shell.py line 87 and git.py line 81: timeout or self.timeout
cmd_timeout(timeout, default) == IF truthy(timeout) THEN timeout ELSE default

\* subprocess.run(timeout=t): TimeoutExpired once the command has run for
\* more than t seconds; with t None the call waits for the command
expired(t, dur) == t.set /\ (~dur.ends \/ dur.d > t.v)
waits_forever(t, dur) == ~t.set /\ ~dur.ends

\* shell.py lines 123-126: cut at the ceiling and append the marker
truncate(text) ==
    IF text.len > MAX_OUTPUT_LENGTH
    THEN [len |-> MAX_OUTPUT_LENGTH + MARKER_LENGTH, marked |-> TRUE]
    ELSE [len |-> text.len, marked |-> FALSE]

\* str.strip(): the whitespace at the ends goes, nothing is marked
strip(text) == [len |-> text.len - text.pad, marked |-> FALSE]

\* shell.py lines 98-106 with lines 128-131, 149-150, 162-163 and 175-176:
\* the record run appends to the history (command text, working directory,
\* timeout and the texts are left out; error is the kind of its text)
cmd_record(exit_code, error) == [exit_code |-> exit_code, error |-> error]

\* shell.py lines 108-184: the try block of run and its except clauses;
\* capture = FALSE leaves result.stdout and result.stderr None ("" after
\* lines 120-121)
shell_run(timeout, default, capture, c) ==
    LET t == cmd_timeout(timeout, default)
        stdout == truncate(IF capture THEN c.stdout ELSE [len |-> 0, pad |-> 0])
        stderr == truncate(IF capture THEN c.stderr ELSE [len |-> 0, pad |-> 0])
    IN  IF c.fault = "not_found"
        THEN [call |-> Returned(ToolResult(FALSE, [exit_code |-> Some(127)],
                                           [kind |-> "not_found"])),
              logs |-> <<"shell.run called", "shell.run failed">>,
              records |-> <<cmd_record(None, "not_found")>>]
        ELSE IF c.fault = "os_error"
        THEN [call |-> Returned(ToolResult(FALSE, [exit_code |-> None],
                                           [kind |-> "failed"])),
              logs |-> <<"shell.run called", "shell.run failed">>,
              records |-> <<cmd_record(None, "failed")>>]
        ELSE IF expired(t, c.dur)
        THEN [call |-> Returned(ToolResult(FALSE, [exit_code |-> None],
                                           [kind |-> "timeout", seconds |-> t.v])),
              logs |-> <<"shell.run called", "shell.run timeout">>,
              records |-> <<cmd_record(None, "timeout")>>]
        ELSE IF waits_forever(t, c.dur)
        THEN [call |-> Hangs, logs |-> <<"shell.run called">>,
              records |-> <<>>]
        ELSE [call |-> Returned(ToolResult(c.code = 0,
                                           [exit_code |-> Some(c.code),
                                            stdout |-> stdout, stderr |-> stderr],
                                           IF c.code # 0
                                           THEN [kind |-> "stderr", text |-> stderr]
                                           ELSE NoError)),
              logs |-> <<"shell.run called", "shell.run completed">>,
              records |-> <<cmd_record(Some(c.code), "stderr")>>]

\* git.py lines 70-132: _run_git, which captures both streams, strips them
\* and cuts nothing
run_git(timeout, default, c) ==
    LET t == cmd_timeout(timeout, default) IN
    IF c.fault = "not_found"
    THEN [call |-> Returned(ToolResult(FALSE, None, [kind |-> "not_found"])),
          logs |-> <<"Executing">>]
    ELSE IF c.fault = "os_error"
    THEN [call |-> Returned(ToolResult(FALSE, None, [kind |-> "failed"])),
          logs |-> <<"Executing">>]
    ELSE IF expired(t, c.dur)
    THEN [call |-> Returned(ToolResult(FALSE, None,
                                       [kind |-> "timeout", seconds |-> t.v])),
          logs |-> <<"Executing">>]
    ELSE IF waits_forever(t, c.dur)
    THEN [call |-> Hangs, logs |-> <<"Executing">>]
    ELSE IF c.code = 0
    THEN [call |-> Returned(ToolResult(TRUE, [stdout |-> strip(c.stdout)], NoError)),
          logs |-> <<"Executing">>]
    ELSE [call |-> Returned(ToolResult(FALSE,
                                       IF c.stdout.len > 0
                                       THEN [stdout |-> strip(c.stdout)] ELSE None,
                                       [kind |-> "stderr", text |-> strip(c.stderr)])),
          logs |-> <<"Executing">>]

\* shell.py lines 186-224: which, for the three ways shutil.which can end
which(w) ==
    IF w = "found"
    THEN [call |-> Returned(ToolResult(TRUE, [path |-> Some(1)], NoError)),
          logs |-> <<"shell.which called", "shell.which found">>]
    ELSE IF w = "not_found"
    THEN [call |-> Returned(ToolResult(FALSE, [path |-> None], [kind |-> "not_found"])),
          logs |-> <<"shell.which called", "shell.which not found">>]
    ELSE [call |-> Returned(ToolResult(FALSE, [path |-> None], [kind |-> "failed"])),
          logs |-> <<"shell.which called", "shell.which failed">>]

\* what detect_test_framework finds in the working directory: stat_error is
\* an OSError of the first Path.exists() other than "no such file" (exists
\* passes it on up to Python 3.12), marker a pytest.ini, pyproject.toml or
\* setup.py, pytest the outcome of which("pytest"), later the framework of
\* the checks that follow (package.json, go.mod, Cargo.toml)
DetectEnvs ==
    {[stat_error |-> TRUE, marker |-> FALSE, pytest |-> "not_found", later |-> "none"]}
    \cup {[stat_error |-> FALSE, marker |-> FALSE, pytest |-> "not_found", later |-> l] :
            l \in {"none", "go"}}
    \cup {[stat_error |-> FALSE, marker |-> TRUE, pytest |-> p, later |-> l] :
            p \in {"found", "not_found"}, l \in {"none", "go"}}

\* shell.py lines 226-285: no try block around the probes of lines 242-269
detect_test_framework(e) ==
    LET framework == IF e.later # "none" THEN e.later
                     ELSE IF e.marker /\ e.pytest = "found" THEN "pytest"
                     ELSE "none"
        probe == IF e.marker THEN which(e.pytest).logs ELSE <<>>
    IN  IF e.stat_error
        THEN [call |-> Raised("OSError"),
              logs |-> <<"shell.detect_test_framework called">>]
        ELSE IF framework # "none"
        THEN [call |-> Returned(ToolResult(TRUE, [framework |-> framework], NoError)),
              logs |-> <<"shell.detect_test_framework called">> \o probe
                          \o <<"shell.detect_test_framework found">>]
        ELSE [call |-> Returned(ToolResult(FALSE, [framework |-> "none"],
                                           [kind |-> "no_framework"])),
              logs |-> <<"shell.detect_test_framework called">> \o probe
                          \o <<"shell.detect_test_framework none">>]

\* shell.py lines 287-342: detection, then the test command through run
run_tests(timeout, default, e, c) ==
    LET detection == detect_test_framework(e)
        run == shell_run(timeout, default, TRUE, c)
    IN  IF ~detection.call.returned
        THEN [call |-> detection.call,
              logs |-> <<"shell.run_tests called">> \o detection.logs]
        ELSE IF ~detection.call.result.success
        THEN [call |-> Returned(ToolResult(FALSE, [tests_run |-> FALSE],
                                           [kind |-> "no_framework"])),
              logs |-> <<"shell.run_tests called">> \o detection.logs]
        ELSE [call |-> IF run.call.returned
                       THEN Returned(ToolResult(run.call.result.success,
                                                [tests_run |-> TRUE,
                                                 run |-> run.call.result.output],
                                                run.call.result.error))
                       ELSE run.call,
              logs |-> <<"shell.run_tests called">> \o detection.logs
                          \o <<"shell.run_tests executing">> \o run.logs,
              records |-> run.records]

\* what the captured stdout of a test command spells: for each of "N passed",
\* "N failed" and "N skipped" the first N in the text, None when the text
\* has no such phrase
NoReport == [passed |-> None, failed |-> None, skipped |-> None]

Reports ==
    {[passed |-> p, failed |-> f, skipped |-> k] :
        p \in {None} \cup {Some(n) : n \in 0..MaxPassed},
        f \in {None} \cup {Some(n) : n \in 0..MaxFailed},
        k \in {None} \cup {Some(n) : n \in 0..MaxSkipped}}

\* shell.py lines 344-373: the counts default to 0; pytest adds the skipped
\* tests to the total, npm and playwright do not read them, and the output
\* of any other framework is not read
parse_test_output(report, framework) ==
    LET count(o) == IF o.set THEN o.v ELSE 0 IN
    IF framework = "pytest"
    THEN [total |-> count(report.passed) + count(report.failed) + count(report.skipped),
          passed |-> count(report.passed), failed |-> count(report.failed),
          skipped |-> count(report.skipped)]
    ELSE IF framework \in {"npm", "playwright"}
    THEN [total |-> count(report.passed) + count(report.failed),
          passed |-> count(report.passed), failed |-> count(report.failed),
          skipped |-> 0]
    ELSE [total |-> 0, passed |-> 0, failed |-> 0, skipped |-> 0]

\* shell.py lines 318-335: the counts run_tests puts in its output; a run
\* that did not complete leaves no stdout (lines 323-324)
test_counts(e, c, report, run) ==
    parse_test_output(IF run.call.returned /\ "stdout" \in DOMAIN run.call.result.output
                      THEN report ELSE NoReport,
                      detect_test_framework(e).call.result.output.framework)

\* runner.py lines 243-252
SimulatedRecord ==
    [total |-> 5, passed |-> 5, failed |-> 0, skipped |-> 0, framework |-> "simulated"]

\* runner.py lines 216-252 on a runner with a sandbox: run_tests of a
\* ShellTools of timeout 300 called with timeout 300; its counts are
\* returned when the result has success and tests_run, the simulated record
\* in every other case; duration and output text are left out
runner_run_tests(e, c, report) ==
    LET result == run_tests(Some(300), Some(300), e, c)
        run == shell_run(Some(300), Some(300), TRUE, c)
        counts == test_counts(e, c, report, run)
    IN  [call |-> IF ~result.call.returned THEN result.call
                  ELSE IF result.call.result.success
                          /\ result.call.result.output.tests_run
                  THEN Returned([total |-> counts.total, passed |-> counts.passed,
                                 failed |-> counts.failed, skipped |-> counts.skipped,
                                 framework |-> detect_test_framework(e)
                                                  .call.result.output.framework])
                  ELSE Returned(SimulatedRecord),
         logs |-> result.logs,
         records |-> IF "records" \in DOMAIN result THEN result.records ELSE <<>>]

\* git.py lines 134-306: status, checkout, create_branch, merge and diff all
\* log the call, run git with the default timeout and log how it ended
\* (status and diff only when it succeeded, and they wrap the output)
GitOps == {"git.status", "git.checkout", "git.create_branch", "git.merge", "git.diff"}

git_op(op, default, c) ==
    LET r == run_git(None, default, c)
        parses == op \in {"git.status", "git.diff"}
        ok == r.call.returned /\ r.call.result.success
    IN  [call |-> IF ok /\ parses
                  THEN Returned(ToolResult(TRUE, [raw |-> r.call.result.output], NoError))
                  ELSE r.call,
         logs |-> <<op>> \o r.logs
                     \o (IF ~r.call.returned THEN <<>>
                         ELSE IF ok THEN <<"completed">>
                         ELSE IF parses THEN <<>> ELSE <<"failed">>)]

\* ------------------------------------------------- repository (repo.py)
\* A location is the sequence of its components from the file system root;
\* the repository RepoTools was built for is at RootPath.
RootPath == <<"repo">>
Locations == {<<"repo", "f">>, <<"repo", "g">>, <<"x">>}

\* path arguments: relative to the repository or absolute
Path(abs, comps) == [abs |-> abs, comps |-> comps]
PathArgs ==
    {Path(FALSE, <<"f">>), Path(FALSE, <<"g">>), Path(FALSE, <<"..", "x">>),
     Path(TRUE, <<"x">>), Path(TRUE, <<"repo", "f">>), Path(FALSE, <<".">>)}

RECURSIVE normalize(_, _)
\* Path.resolve() on a tree without symbolic links: "." is dropped and ".."
\* takes the last component away
normalize(stack, comps) ==
    IF comps = <<>> THEN stack
    ELSE IF Head(comps) = "." THEN normalize(stack, Tail(comps))
    ELSE IF Head(comps) = ".."
    THEN normalize(IF stack = <<>> THEN <<>> ELSE SubSeq(stack, 1, Len(stack) - 1),
                   Tail(comps))
    ELSE normalize(Append(stack, Head(comps)), Tail(comps))

\* repo.py lines 58-82: ok = FALSE is the ValueError "outside repository bounds"
validate_path(p) ==
    LET resolved == normalize(IF p.abs THEN <<>> ELSE RootPath, p.comps) IN
    [ok |-> /\ Len(resolved) >= Len(RootPath)
            /\ SubSeq(resolved, 1, Len(RootPath)) = RootPath,
     path |-> resolved]

\* files maps a location to the lines of the file (split at "\n"); <<>> is
\* a file that does not exist
exists(fs, loc) == loc = RootPath \/ (loc \in DOMAIN fs /\ fs[loc] # <<>>)
is_file(fs, loc) == loc \in DOMAIN fs /\ fs[loc] # <<>>
Under(fs, loc) ==
    {l \in DOMAIN fs : /\ fs[l] # <<>> /\ Len(l) >= Len(loc)
                       /\ SubSeq(l, 1, Len(loc)) = loc}

\* what a RepoTools call did: the call, its log entries, the files after
\* it and the locations whose content it read or wrote
Done(call, logs, fs, reads, writes) ==
    [call |-> call, logs |-> logs, files |-> fs, reads |-> reads, writes |-> writes]

Fail(kind) == Returned(ToolResult(FALSE, None, [kind |-> kind]))

\* repo.py lines 84-153
tree(fs, p) ==
    LET v == validate_path(p) IN
    IF ~v.ok THEN Done(Fail("outside"), <<"repo.tree called", "repo.tree failed">>,
                       fs, {}, {})
    ELSE IF ~exists(fs, v.path)
    THEN Done(Fail("missing"), <<"repo.tree called">>, fs, {}, {})
    ELSE IF is_file(fs, v.path)
    THEN Done(Fail("failed"), <<"repo.tree called", "repo.tree failed">>, fs, {}, {})
    ELSE Done(Returned(ToolResult(TRUE, [children |-> Under(fs, v.path)], NoError)),
              <<"repo.tree called", "repo.tree completed">>, fs, {}, {})

\* repo.py lines 155-215: regex is FALSE for a pattern re.compile rejects
search(fs, regex, p) ==
    LET v == validate_path(p) IN
    IF ~v.ok \/ ~regex
    THEN Done(Fail(IF ~v.ok THEN "outside" ELSE "failed"),
              <<"repo.search called", "repo.search failed">>, fs, {}, {})
    ELSE Done(Returned(ToolResult(TRUE, [searched |-> Under(fs, v.path) \ {v.path}],
                                  NoError)),
              <<"repo.search called", "repo.search found">>,
              fs, Under(fs, v.path) \ {v.path}, {})

\* repo.py lines 217-290: io is FALSE when read_text raises
read(fs, p, io) ==
    LET v == validate_path(p) IN
    IF ~v.ok THEN Done(Fail("outside"), <<"repo.read called", "repo.read failed">>,
                       fs, {}, {})
    ELSE IF ~exists(fs, v.path)
    THEN Done(Fail("missing"), <<"repo.read called">>, fs, {}, {})
    ELSE IF ~is_file(fs, v.path)
    THEN Done(Fail("not_a_file"), <<"repo.read called">>, fs, {}, {})
    ELSE IF ~io
    THEN Done(Fail("failed"), <<"repo.read called", "repo.read failed">>,
              fs, {v.path}, {})
    ELSE Done(Returned(ToolResult(TRUE, [content |-> fs[v.path]], NoError)),
              <<"repo.read called", "repo.read completed">>, fs, {v.path}, {})

\* repo.py lines 361-431: path2 is None when the second path is not given
diff(fs, path1, path2) ==
    LET v1 == validate_path(path1)
        v2 == validate_path(path2.v)
    IN  IF ~v1.ok
        THEN Done(Fail("outside"), <<"repo.diff called", "repo.diff failed">>, fs, {}, {})
        ELSE IF ~exists(fs, v1.path)
        THEN Done(Fail("missing"), <<"repo.diff called">>, fs, {}, {})
        ELSE IF ~is_file(fs, v1.path)
        THEN Done(Fail("failed"), <<"repo.diff called", "repo.diff failed">>, fs, {}, {})
        ELSE IF ~path2.set
        THEN Done(Returned(ToolResult(TRUE, [added |-> fs[v1.path], dropped |-> <<>>],
                                      NoError)),
                  <<"repo.diff called", "repo.diff completed">>, fs, {v1.path}, {})
        ELSE IF ~v2.ok
        THEN Done(Fail("outside"), <<"repo.diff called", "repo.diff failed">>,
                  fs, {v1.path}, {})
        ELSE IF ~exists(fs, v2.path)
        THEN Done(Fail("missing"), <<"repo.diff called">>, fs, {v1.path}, {})
        ELSE IF ~is_file(fs, v2.path)
        THEN Done(Fail("failed"), <<"repo.diff called", "repo.diff failed">>,
                  fs, {v1.path}, {})
        ELSE Done(Returned(ToolResult(TRUE, [added |-> fs[v1.path],
                                             dropped |-> fs[v2.path]], NoError)),
                  <<"repo.diff called", "repo.diff completed">>,
                  fs, {v1.path, v2.path}, {})

\* ------------------------------------------------------ unified diffs
MaxSections == 2
MaxHunks == 2
MaxLines == 2
MaxBody == 2

\* the lines of a patch, by what _parse_patch tests: "diff" starts with
\* "diff --git", "---" with "--- ", "+++" with "+++ " (b: the path has the
\* prefix "b/"), "@@" is a hunk header, "+" an added line and "" the empty
\* text after the last newline
Line(kind) == [kind |-> kind]
Target(b, path) == [kind |-> "+++", b |-> b, path |-> path]
Header(section, h) == [kind |-> "@@", section |-> section, hunk |-> h]

\* where a patch may point
PatchPaths == {Path(FALSE, <<"f">>), Path(FALSE, <<"g">>), Path(FALSE, <<"..", "x">>)}

\* a file section: introduced by a "diff --git" line or not, its target and
\* the number of its hunks
Sections ==
    [git : BOOLEAN, path : PatchPaths, hunks : 1..MaxHunks]

RECURSIVE HunkLines(_, _)
\* the hunks 1..n of the s-th section, each a header and one added line
HunkLines(s, n) ==
    IF n = 0 THEN <<>>
    ELSE HunkLines(s, n - 1) \o <<Header(s, n), Line("+")>>

SectionLines(s, sec) ==
    (IF sec.git THEN <<Line("diff")>> ELSE <<>>)
        \o <<Line("---"), Target(sec.git, sec.path)>> \o HunkLines(s, sec.hunks)

RECURSIVE Blob(_, _)
\* patch.split("\n") of the text of the first k sections of secs
Blob(secs, k) ==
    IF k = 0 THEN <<>> ELSE Blob(secs, k - 1) \o SectionLines(k, secs[k])

\* the sequences of file sections a patch text is made of
Patches ==
    UNION {[1..k -> Sections] : k \in 0..MaxSections}

\* patch.split("\n") of the whole text, which ends with a newline
Text(secs) == Blob(secs, Len(secs)) \o <<Line("")>>

RECURSIVE hunk_end(_, _)
\* repo.py lines 472-474: the hunk runs up to the next line that starts
\* with "@@" or "diff"
hunk_end(lines, i) ==
    IF i > Len(lines) \/ lines[i].kind \in {"@@", "diff"} THEN i
    ELSE hunk_end(lines, i + 1)

\* repo.py lines 461-463: the text after "+++ " without a leading "b/"
target_path(line) == line.path

RECURSIVE parse_from(_, _, _, _, _)
\* repo.py lines 442-486: the loop of _parse_patch from line i on
parse_from(lines, i, file_patches, current_file, current_hunks) ==
    LET flushed == IF current_file.set
                   THEN Append(file_patches,
                               [path |-> current_file.v, hunks |-> current_hunks])
                   ELSE file_patches
    IN  IF i > Len(lines) THEN flushed
        ELSE IF lines[i].kind = "diff"
        THEN parse_from(lines, i + 1, flushed, current_file, <<>>)
        ELSE IF lines[i].kind = "---"
        THEN parse_from(lines, i + 1, file_patches, current_file, current_hunks)
        ELSE IF lines[i].kind = "+++"
        THEN parse_from(lines, i + 1, file_patches, Some(target_path(lines[i])),
                        current_hunks)
        ELSE IF lines[i].kind = "@@"
        THEN LET e == hunk_end(lines, i + 1) IN
             parse_from(lines, e, file_patches, current_file,
                        Append(current_hunks, SubSeq(lines, i, e - 1)))
        ELSE parse_from(lines, i + 1, file_patches, current_file, current_hunks)

\* repo.py lines 433-486
parse_patch(lines) == parse_from(lines, 1, <<>>, None, <<>>)

\* repo.py lines 488-502: every added line of every hunk goes to the end
Added(hunk) == SelectSeq(Tail(hunk), LAMBDA l : l.kind = "+")

\* repo.py line 500: line[1:], the text after the "+"; the added line of
\* the patches of Patches is "+new"
added_text(l) == IF "text" \in DOMAIN l THEN l.text ELSE "new"

RECURSIVE apply_hunks(_, _)
apply_hunks(original, hunks) ==
    IF hunks = <<>> THEN original
    ELSE apply_hunks(original \o [k \in DOMAIN Added(Head(hunks)) |->
                                     added_text(Added(Head(hunks))[k])],
                     Tail(hunks))

RECURSIVE apply_files(_, _, _, _, _)
\* repo.py lines 317-359: the loop over the parsed sections, which stops at
\* the first path that is not inside the repository
apply_files(file_patches, dry_run, fs, entries, touched) ==
    IF file_patches = <<>>
    THEN Done(Returned(ToolResult(TRUE, [files |-> entries, dry_run |-> dry_run],
                                  NoError)),
              <<"repo.apply_patch called", "repo.apply_patch completed">>,
              fs, touched.reads, touched.writes)
    ELSE LET file_info == Head(file_patches)
             v == validate_path(file_info.path)
             \* read_text of "" is one empty line
             original == IF exists(fs, v.path) THEN fs[v.path] ELSE <<"">>
             patched == apply_hunks(original, file_info.hunks)
             entry == [file |-> file_info.path, hunks |-> Len(file_info.hunks),
                       status |-> IF dry_run THEN "would_apply" ELSE "applied"]
         IN  IF ~v.ok
             THEN Done(Fail("outside"),
                       <<"repo.apply_patch called", "repo.apply_patch failed">>,
                       fs, touched.reads, touched.writes)
             ELSE IF dry_run
             THEN apply_files(Tail(file_patches), dry_run, fs,
                              Append(entries, entry), touched)
             ELSE apply_files(Tail(file_patches), dry_run,
                              [fs EXCEPT ![v.path] = patched],
                              Append(entries, entry),
                              [reads |-> touched.reads \cup
                                            (IF exists(fs, v.path) THEN {v.path} ELSE {}),
                               writes |-> touched.writes \cup {v.path}])

\* repo.py lines 292-359
apply_patch(fs, lines, dry_run) ==
    LET file_patches == parse_patch(lines) IN
    IF file_patches = <<>>
    THEN Done(Fail("no_patches"), <<"repo.apply_patch called">>, fs, {}, {})
    ELSE apply_files(file_patches, dry_run, fs, <<>>, [reads |-> {}, writes |-> {}])

\* ------------------------------------------------ calls on one adapter
MaxLog == 2
MaxHistory == 2

\* the value of last before the first call
NoCall ==
    [op |-> "none", args |-> <<>>, call |-> Returned(None),
     reads |-> {}, writes |-> {}, before |-> <<>>]

\* a call is made when the caller has its previous call back; the length
\* of the log at the call is bounded
CanCall(kind) ==
    /\ adapter.kind = kind
    /\ last.call.returned \/ last.call.raised
    /\ Len(tool_logs) <= MaxLog
    /\ Len(command_history) < MaxHistory

\* the effect of a call on the instance and on what its caller holds
Call(op, args, out) ==
    /\ tool_logs' = tool_logs \o out.logs
    /\ command_history' = IF "records" \in DOMAIN out
                          THEN command_history \o out.records
                          ELSE command_history
    /\ last' = [op |-> op, args |-> args, call |-> out.call,
                reads |-> {}, writes |-> {}, before |-> files]
    /\ UNCHANGED <<adapter, files, planvars, execvars, uivars>>

RepoCall(op, args, out) ==
    /\ tool_logs' = tool_logs \o out.logs
    /\ UNCHANGED command_history
    /\ files' = out.files
    /\ last' = [op |-> op, args |-> args, call |-> out.call,
                reads |-> out.reads, writes |-> out.writes, before |-> files]
    /\ UNCHANGED <<adapter, planvars, execvars, uivars>>

ShellRun ==
    /\ CanCall("shell")
    /\ \E timeout \in TimeoutArgs : \E capture \in BOOLEAN :
       \E c \in IF capture THEN Commands ELSE Quiet :
          Call("shell.run",
               [timeout |-> timeout, capture_output |-> capture, command |-> c],
               shell_run(timeout, adapter.timeout, capture, c))

ShellWhich ==
    /\ CanCall("shell")
    /\ \E w \in {"found", "not_found", "error"} :
          Call("shell.which", [found |-> w], which(w))

DetectTestFramework ==
    /\ CanCall("shell")
    /\ \E e \in DetectEnvs :
          Call("shell.detect_test_framework", [env |-> e], detect_test_framework(e))

RunTests ==
    /\ CanCall("shell")
    /\ \E timeout \in {Some(300), Some(0)} : \E e \in DetectEnvs : \E c \in Quiet :
          Call("shell.run_tests", [timeout |-> timeout, env |-> e, command |-> c],
               run_tests(timeout, adapter.timeout, e, c))

\* _run_git called with a timeout of its own
RunGit ==
    /\ CanCall("git")
    /\ \E timeout \in TimeoutArgs : \E c \in Commands :
          Call("git._run_git", [timeout |-> timeout, command |-> c],
               run_git(timeout, adapter.timeout, c))

GitCommand ==
    /\ CanCall("git")
    /\ \E op \in GitOps : \E c \in Commands :
          Call(op, [timeout |-> None, command |-> c], git_op(op, adapter.timeout, c))

RepoTree ==
    /\ CanCall("repo")
    /\ \E p \in PathArgs : RepoCall("repo.tree", [path |-> p], tree(files, p))

RepoSearch ==
    /\ CanCall("repo")
    /\ \E p \in PathArgs : \E regex \in BOOLEAN :
          RepoCall("repo.search", [path |-> p, regex |-> regex], search(files, regex, p))

RepoRead ==
    /\ CanCall("repo")
    /\ \E p \in PathArgs : \E io \in BOOLEAN :
          RepoCall("repo.read", [path |-> p, io |-> io], read(files, p, io))

RepoDiff ==
    /\ CanCall("repo")
    /\ \E path1 \in PathArgs : \E path2 \in {None} \cup {Some(p) : p \in PathArgs} :
          RepoCall("repo.diff", [path |-> path1, path2 |-> path2],
                   diff(files, path1, path2))

\* _parse_patch applied to the text the caller holds: it logs nothing and
\* touches no file
ParsePatch ==
    /\ adapter.kind = "repo"
    /\ last.op = "patch"
    /\ RepoCall("repo._parse_patch", last.args,
                Done(Returned(parse_patch(Text(last.args.sections))), <<>>, files, {}, {}))

\* apply_patch called with the text the caller holds
ApplyPatch ==
    /\ adapter.kind = "repo"
    /\ last.op = "patch"
    /\ \E dry_run \in BOOLEAN :
          RepoCall("repo.apply_patch",
                   [sections |-> last.args.sections, dry_run |-> dry_run],
                   apply_patch(files, Text(last.args.sections), dry_run))

\* shell.py lines 383-385, git.py lines 416-418, repo.py lines 508-510
ClearLogs ==
    /\ adapter.kind \in {"shell", "git", "repo"}
    /\ last.call.returned \/ last.call.raised
    /\ tool_logs' = <<>>
    /\ last' = [op |-> "clear_logs", args |-> <<>>, call |-> Returned(None),
                reads |-> {}, writes |-> {}, before |-> files]
    /\ UNCHANGED <<adapter, command_history, files, planvars, execvars, uivars>>

\* shell.py lines 387-389
ClearHistory ==
    /\ adapter.kind = "shell"
    /\ last.call.returned \/ last.call.raised
    /\ command_history' = <<>>
    /\ last' = [op |-> "clear_history", args |-> <<>>, call |-> Returned(None),
                reads |-> {}, writes |-> {}, before |-> files]
    /\ UNCHANGED <<adapter, tool_logs, files, planvars, execvars, uivars>>

\* a new adapter instance: ShellTools.__init__ (shell.py lines 48-60),
\* GitTools.__init__ (git.py lines 48-63) or RepoTools.__init__ (repo.py
\* lines 42-51) on a repository with the file f, without g, next to a file x
RepoFiles == [loc \in Locations |-> IF loc = <<"repo", "g">> THEN <<>> ELSE <<"old">>]

\* a new adapter instance next to the files fs
ToolsOn(fs) ==
    /\ tool_logs = <<>>
    /\ command_history = <<>>
    /\ files = fs
    /\ requirements = <<>>
    /\ tickets = <<>>
    /\ waves = <<>>
    /\ processed = {}
    /\ warned = FALSE
    /\ pc = "tools"
    /\ InitExecVars(0)
    /\ NoUI
    /\ max_runners = 1
    /\ autonomous = FALSE
    /\ suite = [tests |-> Simulated, output |-> "plain"]

NewTools == ToolsOn(RepoFiles)

InitTools ==
    /\ adapter \in {[kind |-> k, timeout |-> t] :
                       k \in {"shell", "git"}, t \in InstanceTimeouts}
                   \cup {[kind |-> "repo", timeout |-> None]}
    /\ last = NoCall
    /\ NewTools

NextTools ==
    \/ ShellRun \/ ShellWhich \/ DetectTestFramework \/ RunTests
    \/ RunGit \/ GitCommand
    \/ RepoTree \/ RepoSearch \/ RepoRead \/ RepoDiff
    \/ ClearLogs
    \/ ClearHistory

SpecTools == InitTools /\ [][NextTools]_vars

\* patches: a new RepoTools instance whose caller holds a patch text of up
\* to MaxSections file sections and either parses it or applies it
InitPatch ==
    /\ adapter = [kind |-> "repo", timeout |-> None]
    /\ \E secs \in Patches :
          last = [op |-> "patch", args |-> [sections |-> secs], call |-> Returned(None),
                  reads |-> {}, writes |-> {}, before |-> <<>>]
    /\ NewTools

NextPatch == ParsePatch \/ ApplyPatch

SpecPatch == InitPatch /\ [][NextPatch]_vars

\* one hunk: a new RepoTools instance next to a file f of up to MaxLines
\* lines, whose caller holds a patch of one "diff --git" section for f with
\* one hunk: its header records the line start of f and its body has up to
\* MaxBody added ("+"), removed ("-") and context (" ") lines
FileTexts == {"a", "b"}

Originals == UNION {[1..n -> FileTexts] : n \in 1..MaxLines}

BodyLines == [kind : {"+", "-", " "}, text : FileTexts]

Hunks ==
    {[start |-> s, body |-> b] :
        s \in 1..MaxLines, b \in UNION {[1..n -> BodyLines] : n \in 1..MaxBody}}

\* patch.split("\n") of the text of that patch
HunkText(hunk) ==
    <<Line("diff"), Line("---"), Target(TRUE, Path(FALSE, <<"f">>)),
      [kind |-> "@@", section |-> 1, hunk |-> 1, start |-> hunk.start]>>
        \o hunk.body \o <<Line("")>>

InitHunks ==
    /\ adapter = [kind |-> "repo", timeout |-> None]
    /\ \E original \in Originals : \E hunk \in Hunks :
          /\ last = [op |-> "hunk", args |-> [hunk |-> hunk], call |-> Returned(None),
                     reads |-> {}, writes |-> {}, before |-> <<>>]
          /\ ToolsOn([RepoFiles EXCEPT ![<<"repo", "f">>] = original])

\* apply_patch called with that patch and dry_run=False
ApplyHunk ==
    /\ adapter.kind = "repo"
    /\ last.op = "hunk"
    /\ RepoCall("repo.apply_patch", [hunk |-> last.args.hunk, dry_run |-> FALSE],
                apply_patch(files, HunkText(last.args.hunk), FALSE))

NextHunks == ApplyHunk

SpecHunks == InitHunks /\ [][NextHunks]_vars

\* ------------------------------------------------------------ sandboxes
MaxEntries == 2

\* runner.py line 22
ALLOWED_DOTFILES == {".gitignore", ".gitattributes", ".editorconfig"}

\* runner.py line 77: the directory names skipped at the top level
SkippedDirs == {"__pycache__", "node_modules", "venv", "env"}

\* the names an entry of the repository may have, in the order of a listing
EntryNames ==
    <<".env", ".git", ".gitignore", "__pycache__", "env", "m.pyc", "node_modules", "src">>

\* runner.py line 75: item.name.startswith('.')
starts_with_dot(name) ==
    name \in {".env", ".git", ".gitignore", ".gitattributes", ".editorconfig"}

\* runner.py line 82: shutil.ignore_patterns('__pycache__', '*.pyc', '.git')
ignored(name) == name \in {"__pycache__", ".git", "m.pyc"}

\* an entry of a directory: a file, or a directory with up to one entry
Inner == [name : Range(EntryNames), kind : {"file", "dir"}]

\* what an entry at the top of the repository is
Shapes ==
    {[kind |-> "file", children |-> {}]}
    \cup {[kind |-> "dir", children |-> c] : c \in {{}} \cup {{i} : i \in Inner}}

\* the listings of a repository of up to MaxEntries entries
Listings ==
    UNION {{l \in [1..k -> DOMAIN EntryNames] : \A i \in 1..(k - 1) : l[i] < l[i + 1]} :
              k \in 0..MaxEntries}

\* runner.py lines 74-84: the loop over the entries of the repository
copy_item(item) ==
    IF starts_with_dot(item.name) /\ item.name \notin ALLOWED_DOTFILES THEN {}
    ELSE IF item.kind = "dir" /\ item.name \in SkippedDirs THEN {}
    ELSE IF item.kind = "dir"
    THEN {[item EXCEPT !.children = {c \in item.children : ~ignored(c.name)}]}
    ELSE {item}

\* runner.py lines 55-86: the content of the new sandbox directory
create_sandbox(repo) == UNION {copy_item(item) : item \in repo}

\* a runner next to a repository
InitSandbox ==
    /\ adapter = [kind |-> "runner", timeout |-> None]
    /\ last = NoCall
    /\ \E l \in Listings : \E shape \in [DOMAIN l -> Shapes] :
          ToolsOn([repo |-> {[name |-> EntryNames[l[i]], kind |-> shape[i].kind,
                              children |-> shape[i].children] : i \in DOMAIN l},
                   sandbox |-> {}])

\* Runner.create_sandbox on that repository
CopyRepository ==
    /\ adapter.kind = "runner"
    /\ last.op = "none"
    /\ files' = [files EXCEPT !.sandbox = create_sandbox(files.repo)]
    /\ last' = [op |-> "runner.create_sandbox", args |-> <<>>,
                call |-> Returned(None), reads |-> {}, writes |-> {}, before |-> files]
    /\ UNCHANGED <<adapter, tool_logs, command_history, planvars, execvars, uivars>>

NextSandbox == CopyRepository

SpecSandbox == InitSandbox /\ [][NextSandbox]_vars

\* the tests of a runner: the ShellTools instance of runner.py line 227 in a
\* sandbox with the environment env, where the test command behaves as
\* command and its stdout, kept whole, spells report
TestRuns ==
    {[env |-> e, command |-> c, report |-> r] :
        e \in DetectEnvs,
        c \in {d \in Commands : d.stdout.len <= MAX_OUTPUT_LENGTH},
        r \in Reports}

InitRunTests ==
    /\ adapter = [kind |-> "shell", timeout |-> Some(300)]
    /\ \E a \in {t \in TestRuns : t.command.stdout.len = 0 => t.report = NoReport} :
          last = [op |-> "tests", args |-> a, call |-> Returned(None),
                  reads |-> {}, writes |-> {}, before |-> <<>>]
    /\ NewTools

\* Runner._run_tests in that sandbox
RunnerRunTests ==
    /\ adapter.kind = "shell"
    /\ last.op = "tests"
    /\ Call("runner._run_tests", last.args,
            runner_run_tests(last.args.env, last.args.command, last.args.report))

NextRunTests == RunnerRunTests

SpecRunTests == InitRunTests /\ [][NextRunTests]_vars

\* ------------------------------------------- vocabulary of the planner claims
DistinctIds(ts) == \A i, j \in DOMAIN ts : ts[i].id = ts[j].id => i = j

\* the dependencies listed under an id (none for an id that no ticket has)
DepsOf(ts, d) == UNION {ts[i].dependencies : i \in {j \in DOMAIN ts : ts[j].id = d}}

RECURSIVE Closure(_, _)
Closure(ts, S) ==
    LET N == S \cup UNION {DepsOf(ts, d) : d \in S}
    IN  IF N = S THEN S ELSE Closure(ts, N)

\* every id that id d depends on, directly or through other tickets
TransDeps(ts, d) == Closure(ts, DepsOf(ts, d))

OnCycle(ts, d) == d \in TransDeps(ts, d)

HasCycle(ts) == \E d \in TicketIds(ts) : OnCycle(ts, d)

ValidDAG(ts) ==
    /\ DistinctIds(ts)
    /\ \A i \in DOMAIN ts : ts[i].dependencies \subseteq TicketIds(ts)
    /\ ~HasCycle(ts)

Schedulable(ts, t) ==
    \A d \in TransDeps(ts, t.id) : d \in TicketIds(ts) /\ ~OnCycle(ts, d)

\* the positions <<k, i>> at which the returned waves hold id d
Places(d) == {p \in UNION {{<<k, i>> : i \in DOMAIN waves[k]} : k \in DOMAIN waves} :
                 waves[p[1]][p[2]] = d}

\* ids held by the waves before the k-th one
Before(k) == UNION {Range(waves[j]) : j \in 1..(k - 1)}

Placed == UNION {Range(waves[k]) : k \in DOMAIN waves}

\* C1: for distinct ids and a valid DAG over existing ids, the returned waves
\* hold every ticket exactly once and every dependency of a ticket of wave k
\* lies in a wave of strictly smaller index.
C1_DagWaves ==
    (pc = "planned" /\ ValidDAG(tickets)) =>
        \A i \in DOMAIN tickets :
            /\ Cardinality(Places(tickets[i].id)) = 1
            /\ \A p \in Places(tickets[i].id) :
                   tickets[i].dependencies \subseteq Before(p[1])

C1_Witness ==
    /\ pc = "planned"
    /\ ValidDAG(tickets)
    /\ Len(tickets) = MaxTickets
    /\ Len(waves) >= 3
    /\ \E i \in DOMAIN tickets : Cardinality(tickets[i].dependencies) >= 2

\* the unplaced ticket ids that the value handed back to the caller mentions
ReportedResidue == {d \in TicketIds(tickets) \ processed : Places(d) # {}}

\* C2: for every ticket set with a dependency cycle the planner returns
\* (no exception) and its return value reports a non-empty unschedulable
\* residue to the caller.
C2_CycleReported ==
    (pc = "planned" /\ HasCycle(tickets)) => ReportedResidue # {}

\* the planner returns on every input, cyclic or not (under SpecPlanFair)
PlannerTerminates == <>(pc = "planned")

\* what the code does on a cyclic input: it returns with the warning logged and
\* with at least one ticket left out of the waves
C2_CycleLeavesResidue ==
    (pc = "planned" /\ HasCycle(tickets)) =>
        warned /\ TicketIds(tickets) \ Placed # {}

\* C3: for distinct ids, a ticket is in the returned waves iff everything it
\* transitively depends on is an existing ticket that lies on no cycle, and
\* no ticket is held twice.
C3_UnionIsSchedulable ==
    (pc = "planned" /\ DistinctIds(tickets)) =>
        \A i \in DOMAIN tickets :
            /\ (tickets[i].id \in Placed) <=> Schedulable(tickets, tickets[i])
            /\ Cardinality(Places(tickets[i].id)) <= 1

C3_Witness ==
    /\ pc = "planned"
    /\ DistinctIds(tickets)
    /\ Placed # {}
    /\ \E i \in DOMAIN tickets : OnCycle(tickets, tickets[i].id)
    /\ \E i \in DOMAIN tickets :
          /\ 0 \in TransDeps(tickets, tickets[i].id)
          /\ 0 \notin tickets[i].dependencies
          /\ tickets[i].id \notin Placed

\* C4: every wave is maximal: wave k holds every ticket not in an earlier
\* wave whose dependencies all lie in the earlier waves.
C4_WavesMaximal ==
    \A k \in DOMAIN waves : \A i \in DOMAIN tickets :
        (tickets[i].id \notin Before(k) /\ tickets[i].dependencies \subseteq Before(k))
            => tickets[i].id \in Range(waves[k])

C4_Witness ==
    /\ pc = "planned"
    /\ \E k \in DOMAIN waves : k >= 2 /\ Len(waves[k]) >= 2
    /\ Len(waves[1]) >= 2

\* the spec's scenario: A = 1, B = 2 (A), C = 3 (A), D = 4 (B, C)
Diamond == <<Ticket(1, {}), Ticket(2, {1}), Ticket(3, {1}), Ticket(4, {2, 3})>>

\* C5: on the scenario the planner returns exactly the waves {A}, {B, C}, {D}
\* in this order.
C5_Diamond ==
    (pc = "planned" /\ tickets = Diamond) =>
        /\ Len(waves) = 3
        /\ Range(waves[1]) = {1} /\ Len(waves[1]) = 1
        /\ Range(waves[2]) = {2, 3} /\ Len(waves[2]) = 2
        /\ Range(waves[3]) = {4} /\ Len(waves[3]) = 1

C5_Witness == pc = "planned" /\ tickets = Diamond /\ waves # <<>>

\* ------------------------------------------- claims about the wave executor
\* on the tickets of execute the planner's break (PlanBreak) is never enabled
PipelineNeverBreaks ==
    (pc = "plan" /\ LoopCondition) => current_wave(tickets, processed) # <<>>

Result(t) == {r \in results : r.ticket_id = t}

\* C6: at every moment at most max_runners execute_ticket calls are running.
C6_BoundedConcurrency == Cardinality(Running) <= max_runners

C6_Witness ==
    /\ Cardinality(Running) = max_runners
    /\ queue # <<>>

\* C7: a ticket of a later wave starts executing only after every ticket of
\* every earlier wave has finished and has had its result collected.
C7_WaveBarrier ==
    \A t \in Placed : \A u \in Placed :
        (fut[t] \notin {"none", "queued"} /\ WaveOf(u) < WaveOf(t))
            => (fut[u] = "collected" /\ Result(u) # {})

C7_Witness ==
    \E t \in Placed : \E u \in Placed :
        /\ WaveOf(t) >= 2 /\ fut[t] = "started"
        /\ WaveOf(u) < WaveOf(t)
        /\ \E r \in Result(u) : ~r.success

\* C8: when a wave has ended, results holds exactly one result for each of
\* its tickets, whichever of them failed and however their commits ended.
C8_OneResultPerTicket ==
    (pc = "loop" /\ cur >= 1) =>
        \A t \in Range(waves[cur]) : Cardinality(Result(t)) = 1

C8_Witness ==
    /\ pc = "loop" /\ cur >= 1
    /\ \E t \in Range(waves[cur]) : \E u \in Range(waves[cur]) :
          /\ \E r \in Result(t) : ~r.success
          /\ commits[u] = "raised"
          /\ \E r \in Result(u) : r.success

\* C9: when a wave has ended, no runner of the wave owns an existing sandbox
\* and no sandbox directory of the wave is left, on every exit path.
C9_SandboxesDestroyed ==
    (pc = "loop" /\ cur >= 1) =>
        \A t \in Range(waves[cur]) : t \notin dirs /\ sandbox_path[t] \notin dirs

C9_Witness ==
    /\ pc = "loop" /\ cur >= 1
    /\ \E t \in Range(waves[cur]) : commits[t] \in {"raised", "failed"}
    /\ \E t \in Range(waves[cur]) : fault[t] = "copy_raised"

\* C10: in every state a runner can be in, cleanup_sandbox raises nothing and
\* leaves no sandbox and no sandbox_path, and a further call changes nothing.
C10_CleanupIdempotent ==
    \A t \in DOMAIN sandbox_path :
        LET c1 == cleanup_sandbox(sandbox_path[t], dirs)
            c2 == cleanup_sandbox(c1.sandbox_path, c1.dirs)
        IN  /\ ~c1.raised /\ ~c2.raised
            /\ c1.sandbox_path = 0 /\ t \notin c1.dirs
            /\ c2 = c1

\* a runner whose sandbox was created has been cleaned up by the collection
\* loop and again by its destructor
C10_Witness ==
    /\ pc = "done"
    /\ \E t \in DOMAIN fut : fut[t] = "collected" /\ \E r \in Result(t) : r.success
    /\ \E t \in DOMAIN fut : sandbox_path[t] = 0 /\ t \notin dirs /\ fut[t] = "collected"

\* ------------------------------------- claims about the runner and the review
TicketOf(t) == find_ticket_by_id(tickets, t)

Carries(msg, e) == \E i \in DOMAIN msg : msg[i] = e

\* C11: when sandbox creation or the unit of work raises, execute_ticket
\* raises nothing: it returns a result with success = FALSE whose error
\* message carries the message of the fault, and the ticket is failed.
C11_FaultBecomesResult ==
    \A t \in DOMAIN fault : fault[t] # "none" =>
        /\ fut[t] \in {"returned_failed", "collected"}
        /\ TicketOf(t).status = "failed"
        /\ fut[t] = "returned_failed" =>
               ~RunnerResult(t).success /\ Carries(RunnerResult(t).error_message, fault[t])
        /\ fut[t] = "collected" =>
               /\ Result(t) # {}
               /\ \A r \in Result(t) : ~r.success /\ Carries(r.error_message, fault[t])

C11_Witness ==
    /\ \E t \in DOMAIN fault : fault[t] = "copy_raised" /\ fut[t] = "collected"
    /\ \E t \in DOMAIN fault : fault[t] = "tests_raised" /\ fut[t] = "returned_failed"

\* C12: in autonomous mode, when the work of a ticket succeeded and its
\* commit failed or raised, the stored result keeps success = TRUE, every
\* ticket of the wave still gets its result, and the review approves the
\* ticket exactly as it would without the commit failure.
C12_CommitFailureKeepsSuccess ==
    \A t \in DOMAIN commits : commits[t] \in {"failed", "raised"} =>
        /\ autonomous
        /\ Cardinality(Result(t)) = 1
        /\ \A r \in Result(t) : r.success /\ r.error_message = <<>>
        /\ ~(pc = "collect" /\ cur = WaveOf(t)) =>
               \A u \in Range(waves[WaveOf(t)]) : fut[u] = "collected" /\ Result(u) # {}
        /\ pc = "done" =>
               /\ \E rv \in reviews : rv.ticket_id = t
               /\ \A rv \in reviews : rv.ticket_id = t =>
                      (rv.approved <=> suite.tests.failed = 0)
               /\ (TicketOf(t).status = "completed") <=> (suite.tests.failed = 0)

C12_Witness ==
    /\ pc = "done"
    /\ \E t \in DOMAIN commits : \E u \in DOMAIN commits :
          /\ t # u /\ WaveOf(t) = WaveOf(u)
          /\ commits[t] = "raised" /\ TicketOf(t).status = "completed"
          /\ commits[u] = "raised" /\ TicketOf(u).status = "completed"

\* the status changes a step makes to the tickets that exist before it
StatusChanges ==
    {<<tickets[i].status, tickets'[i].status>> :
        i \in {j \in DOMAIN tickets : tickets[j].status # tickets'[j].status}}

FourEdges ==
    {<<"pending", "in_progress">>, <<"in_progress", "needs_review">>,
     <<"needs_review", "completed">>, <<"needs_review", "failed">>}

\* C13 (as stated): every status change of a ticket during one execute is
\* pending -> in_progress, in_progress -> needs_review,
\* needs_review -> completed or needs_review -> failed.
C13_FourEdges == [][StatusChanges \subseteq FourEdges]_vars

\* C13 (amended): every status change of a ticket during one execute is one
\* of the four edges above or in_progress -> failed, which the runner takes
\* when sandbox creation or the unit of work raises.
C13_StatusEdges ==
    [][StatusChanges \subseteq (FourEdges \cup {<<"in_progress", "failed">>})]_vars

C13_Witness ==
    /\ pc = "done"
    /\ \E t \in DOMAIN fault : fault[t] # "none" /\ TicketOf(t).status = "failed"
    /\ \E t \in DOMAIN fault : fault[t] = "none" /\ TicketOf(t).status = "failed"
    /\ \E i \in DOMAIN tickets : tickets[i].status = "pending"

\* C14: after review_result the ticket is completed if and only if the
\* review approved it and failed if and only if it did not; the review
\* leaves no other status.
C14_StatusFollowsVerdict ==
    \A rv \in reviews :
        /\ TicketOf(rv.ticket_id).status \in {"completed", "failed"}
        /\ (TicketOf(rv.ticket_id).status = "completed") <=> rv.approved
        /\ (TicketOf(rv.ticket_id).status = "failed") <=> ~rv.approved

C14_Witness ==
    /\ pc = "done"
    /\ \E rv \in reviews :
          /\ ~rv.approved
          /\ \E r \in Result(rv.ticket_id) : r.success
          /\ TicketOf(rv.ticket_id).status = "failed"

\* C15: approved is TRUE if and only if the result has success = TRUE, every
\* acceptance criterion is met, the test counts (when present) have zero
\* failed tests, and the alignment score is at least 0.70.
C15_ApprovalRule ==
    \A rv \in reviews : \A r \in Result(rv.ticket_id) :
        rv.approved <=>
            /\ r.success
            /\ \A k \in DOMAIN TicketOf(rv.ticket_id).acceptance_criteria :
                   TicketOf(rv.ticket_id).acceptance_criteria[k]
            /\ r.test_results.present => r.test_results.failed = 0
            /\ 100 * rv.alignment_score.num >= 70 * rv.alignment_score.den

C15_Witness ==
    /\ pc = "done"
    /\ \E rv \in reviews :
          /\ rv.approved
          /\ rv.alignment_score.num < rv.alignment_score.den
          /\ \E r \in Result(rv.ticket_id) : r.test_results.present

\* the sum the claim gives for the score, times 100 * n * t: n criteria of
\* which m are met, p passed tests out of t
ClaimedSum(ok, m, n, p, t) == (IF ok THEN 30 * n * t ELSE 0) + 40 * m * t + 30 * p * n

\* the sum when no test counts exist, times 100 * n
ClaimedSumNoTests(ok, m, n) == (IF ok THEN 30 * n ELSE 0) + 40 * m + 15 * n

\* C16: the alignment score is 0.30 if the result succeeded, plus 0.40 x
\* (criteria met / criteria total), plus 0.30 x (tests passed / tests total)
\* when test counts exist and a flat 0.15 otherwise; it lies in [0, 1].
\* A quotient exists only over a total that is not 0.
C16_ScoreFormula ==
    \A rv \in reviews : \A r \in Result(rv.ticket_id) :
        LET t == TicketOf(rv.ticket_id)
            n == Len(t.acceptance_criteria)
            m == Cardinality({k \in 1..n : t.acceptance_criteria[k]})
            tr == r.test_results
            sc == rv.alignment_score
        IN  /\ sc.den > 0 /\ 0 <= sc.num /\ sc.num <= sc.den
            /\ n > 0
            /\ IF tr.present
               THEN /\ tr.total > 0
                    /\ sc.num * (100 * n * tr.total)
                          = sc.den * ClaimedSum(r.success, m, n, tr.passed, tr.total)
               ELSE sc.num * (100 * n) = sc.den * ClaimedSumNoTests(r.success, m, n)

\* what the code does: the sum of C16 wherever the test total is not 0, the
\* sum without a test term where test counts exist with total 0, always
\* within [0, 1]
C16_ScoreAsComputed ==
    \A rv \in reviews : \A r \in Result(rv.ticket_id) :
        LET t == TicketOf(rv.ticket_id)
            n == Len(t.acceptance_criteria)
            m == Cardinality({k \in 1..n : t.acceptance_criteria[k]})
            tr == r.test_results
            sc == rv.alignment_score
        IN  /\ sc.den > 0 /\ 0 <= sc.num /\ sc.num <= sc.den
            /\ (tr.present /\ tr.total > 0) =>
                   sc.num * (100 * n * tr.total)
                       = sc.den * ClaimedSum(r.success, m, n, tr.passed, tr.total)
            /\ (tr.present /\ tr.total = 0) =>
                   sc.num * (100 * n) = sc.den * ClaimedSum(r.success, m, n, 0, 1)
            /\ ~tr.present =>
                   sc.num * (100 * n) = sc.den * ClaimedSumNoTests(r.success, m, n)

\* the log lines that hold 'TODO', or 'follow-up' in some letter case
MarkerLines == {"TODO", "follow-up", "Follow-Up"}

Markers(r) == {i \in DOMAIN r.logs : r.logs[i] \in MarkerLines}

\* the scenario: a successful result, 5 tests of which 3 passed and 2
\* failed, no marker in the logs, every criterion met
FailingTestsScenario ==
    \E r \in results :
        /\ r.success
        /\ r.test_results = Counts(3, 2, 0)
        /\ Markers(r) = {}
        /\ \A k \in DOMAIN TicketOf(r.ticket_id).acceptance_criteria :
               TicketOf(r.ticket_id).acceptance_criteria[k]

\* C17: in the scenario the score is 0.88, the review does not approve, and
\* it creates exactly one follow-up, the one for the failing tests.
C17_FailingTests ==
    (pc = "done" /\ FailingTestsScenario) =>
        /\ reviews # {}
        /\ \A rv \in reviews :
              /\ 100 * rv.alignment_score.num = 88 * rv.alignment_score.den
              /\ ~rv.approved
              /\ Len(rv.follow_up_tickets) = 1
              /\ rv.follow_up_tickets[1].priority = "high"
              /\ \E i \in DOMAIN tickets : tickets[i] = rv.follow_up_tickets[1]

C17_Witness == pc = "done" /\ FailingTestsScenario /\ reviews # {}

\* the follow-up tickets the reviews created, each with the id of the ticket
\* whose review created it
FollowUps ==
    UNION {{[parent |-> rv.ticket_id, ticket |-> rv.follow_up_tickets[k]] :
               k \in DOMAIN rv.follow_up_tickets} : rv \in reviews}

\* C18: every follow-up has the id of the ticket whose review created it in
\* its dependencies, when it is created and at every later point of the run.
C18_FollowUpDependsOnParent ==
    \A f \in FollowUps :
        /\ f.parent \in f.ticket.dependencies
        /\ \E i \in DOMAIN tickets : tickets[i].id = f.ticket.id
        /\ \A i \in DOMAIN tickets :
               tickets[i].id = f.ticket.id => f.parent \in tickets[i].dependencies

C18_Witness ==
    /\ pc = "done"
    /\ \E f \in FollowUps : \E g \in FollowUps :
          /\ f.parent # g.parent
          /\ f.ticket.priority = "high"
          /\ g.ticket.priority = "medium"

\* C19: a review creates one follow-up for failing tests when failed > 0 and
\* one per log line that holds a marker ('TODO', or 'follow-up' in any letter
\* case), none when there is no trigger, and their ids are pairwise distinct.
C19_OneFollowUpPerTrigger ==
    \A rv \in reviews : \A r \in Result(rv.ticket_id) :
        LET fus == rv.follow_up_tickets
            failing == r.test_results.present /\ r.test_results.failed > 0
        IN  /\ Len(fus) = (IF failing THEN 1 ELSE 0) + Cardinality(Markers(r))
            /\ Cardinality({k \in DOMAIN fus : fus[k].priority = "high"})
                  = (IF failing THEN 1 ELSE 0)
            /\ \A j, k \in DOMAIN fus : fus[j].id = fus[k].id => j = k

C19_Witness ==
    /\ pc = "done"
    /\ \E rv \in reviews : \E r \in Result(rv.ticket_id) :
          /\ Len(rv.follow_up_tickets) = 3
          /\ r.test_results.failed > 0
          /\ \E i \in DOMAIN r.logs : r.logs[i] = "Follow-Up"
          /\ \E i \in DOMAIN r.logs : r.logs[i] = "TODO"

\* C20: every follow-up that the review adds re-enters planning: a planning
\* pass places it in a wave and it is executed, so it is not pending when the
\* run ends; and it is in no wave computed before it existed.
C20_FollowUpsReplanned ==
    pc = "done" =>
        \A f \in FollowUps :
            /\ f.ticket.id \in Placed
            /\ \A i \in DOMAIN tickets :
                   tickets[i].id = f.ticket.id => tickets[i].status # "pending"

\* what the code does: planning runs once, before any review, so a follow-up
\* is in no wave, gets no result and is pending when the run ends
C20_FollowUpsLeftPending ==
    \A f \in FollowUps :
        /\ f.ticket.id \notin Placed
        /\ Result(f.ticket.id) = {}
        /\ \A i \in DOMAIN tickets :
               tickets[i].id = f.ticket.id => tickets[i].status = "pending"

\* C21: from planning to the summary the ticket list only grows at its end:
\* every step keeps the tickets it finds at their positions (the list before
\* is a prefix of the list after, ticket by ticket id), and a ticket
\* whose status is completed or failed keeps that status.
C21_TicketsAppendOnly ==
    [][/\ Len(tickets) <= Len(tickets')
       /\ \A i \in DOMAIN tickets :
             /\ tickets'[i].id = tickets[i].id
             /\ tickets[i].status \in {"completed", "failed"} =>
                    tickets'[i].status = tickets[i].status]_vars

C21_Witness ==
    /\ pc = "done"
    /\ Len(tickets) > Len(fut)
    /\ \E t \in DOMAIN fault : fault[t] # "none" /\ TicketOf(t).status = "failed"
    /\ \E t \in DOMAIN fault : TicketOf(t).status = "completed"
    /\ \A i \in DOMAIN fut : tickets[i].id = i

\* C22: the success flag of the summary is true exactly when the
\* integration status is "success" and the approval rate, approved reviews
\* over all reviews and 0 when there is no review, is at least 0.8.
C22_OverallSuccess ==
    pc = "done" =>
        LET total == Cardinality(reviews)
            ok == Cardinality({rv \in reviews : rv.approved})
        IN  /\ summary.review.total_reviews = total
            /\ summary.review.approved = ok
            /\ summary.success <=>
                   /\ summary.integration.integration_status = "success"
                   /\ total > 0
                   /\ 10 * ok >= 8 * total

C22_Witness ==
    /\ pc = "done"
    /\ Cardinality(reviews) = 5
    /\ Cardinality({rv \in reviews : rv.approved}) = 4
    /\ summary.success
    /\ summary.tickets.failed = 1

\* a ticket no runner has touched: never submitted, no result, still pending
Untouched(t) ==
    /\ fut[t] = "none"
    /\ Result(t) = {}
    /\ TicketOf(t).status = "pending" /\ TicketOf(t).assigned_runner = 0

\* C23: cancellation is cooperative at wave granularity: once stop was
\* requested no further wave begins, so every ticket of a later wave stays
\* untouched and pending (all tickets, when stop came before the first
\* wave), while every ticket of the waves begun before has run to its end
\* and has its result when the wave loop is left.
C23_CooperativeStop ==
    [][stop_requested =>
          /\ cur' = cur
          /\ \A t \in Placed' : (WaveOf(t) > cur)' => Untouched(t)'
          /\ pc' \in {"review", "integrate", "done"} =>
                 \A t \in Placed' :
                     (WaveOf(t) <= cur)' =>
                         (fut[t] = "collected" /\ Cardinality(Result(t)) = 1)']_vars

C23_Witness ==
    /\ pc = "done" /\ stop_requested
    /\ cur >= 1 /\ cur < Len(waves)
    /\ \A t \in Range(waves[cur]) : Cardinality(Result(t)) = 1
    /\ \E t \in Range(waves[cur + 1]) : Untouched(t)
    /\ summary.tickets.pending >= 1

\* ------------------------------------------ vocabulary of the tool claims
\* the calls that run an external command with a timeout argument
RunsCommand == last.op \in {"shell.run", "git._run_git"} \cup GitOps

\* the command of the last call outlives the timeout t
Exceeds(t) ==
    /\ last.args.command.fault = "none"
    /\ ~last.args.command.dur.ends \/ last.args.command.dur.d > t.v

\* C24: every command of run and _run_git runs under a timeout, the
\* argument or the default of the instance, whatever the timeout argument
\* is; when the command outlives that timeout the call comes back with a
\* ToolResult that has success false and a timeout error, and no call is
\* left waiting without bound.
C24_TimeoutBound ==
    RunsCommand =>
        LET t == cmd_timeout(last.args.timeout, adapter.timeout) IN
        /\ t.set
        /\ last.call.returned \/ last.call.raised
        /\ Exceeds(t) =>
               /\ last.call.returned
               /\ ~last.call.result.success
               /\ last.call.result.error.kind = "timeout"

C24_Witness ==
    /\ last.op = "git._run_git"
    /\ last.args.timeout = Some(0)
    /\ adapter.timeout = Some(DEFAULT_TIMEOUT)
    /\ ~last.args.command.dur.ends
    /\ last.call.returned
    /\ last.call.result.error = [kind |-> "timeout", seconds |-> DEFAULT_TIMEOUT]

\* the streams the last call gave back, each with the raw text it came from
Captured ==
    LET c == last.args.command
        out == last.call.result.output
        err == last.call.result.error
        none == [len |-> 0, pad |-> 0]
    IN  IF ~(RunsCommand /\ last.call.returned) THEN {}
        ELSE (IF "stdout" \in DOMAIN out
              THEN {[raw |-> IF last.op = "shell.run" /\ ~last.args.capture_output
                             THEN none ELSE c.stdout,
                     text |-> out.stdout]}
              ELSE {})
             \cup (IF "raw" \in DOMAIN out
                   THEN {[raw |-> c.stdout, text |-> out.raw.stdout]} ELSE {})
             \cup (IF "stderr" \in DOMAIN out
                   THEN {[raw |-> IF last.args.capture_output THEN c.stderr ELSE none,
                          text |-> out.stderr]}
                   ELSE {})
             \cup (IF err.kind = "stderr"
                   THEN {[raw |-> IF last.op = "shell.run" /\ ~last.args.capture_output
                                  THEN none ELSE c.stderr,
                          text |-> err.text]}
                   ELSE {})

\* C25: the stdout and the stderr text of a ToolResult of run and of the
\* git commands are each at most MAX_OUTPUT_LENGTH plus the marker long,
\* and a text carries the marker exactly when the raw text was longer than
\* MAX_OUTPUT_LENGTH.
C25_OutputBounded ==
    \A s \in Captured :
        /\ s.text.len <= MAX_OUTPUT_LENGTH + MARKER_LENGTH
        /\ s.text.marked <=> s.raw.len > MAX_OUTPUT_LENGTH

\* what holds of C25: run alone bounds and marks its streams
C25_ShellOutputBounded ==
    last.op = "shell.run" => C25_OutputBounded

\* the sections of the patch of the last call that point outside the root
Outside == {i \in DOMAIN last.args.sections :
                ~validate_path(last.args.sections[i].path).ok}

\* C26: an operation given a path outside the repository root returns
\* success false and reads and writes no file; here for apply_patch with
\* dry_run false on a patch of "diff --git" sections of which one points
\* outside the root: the call fails, no file is read or written and every
\* file is as it was.
C26_OutsideRejectedBeforeIO ==
    (/\ last.op = "repo.apply_patch" /\ ~last.args.dry_run
     /\ \A i \in DOMAIN last.args.sections : last.args.sections[i].git
     /\ Outside # {}) =>
        /\ last.call.returned /\ ~last.call.result.success
        /\ last.reads = {} /\ last.writes = {}
        /\ files = last.before

\* what holds of C26: tree, search and read touch no file when their path
\* is outside the root
C26_SinglePathRejected ==
    last.op \in {"repo.tree", "repo.search", "repo.read"}
        /\ ~validate_path(last.args.path).ok =>
            /\ last.call.returned /\ ~last.call.result.success
            /\ last.call.result.error.kind = "outside"
            /\ last.reads = {} /\ last.writes = {} /\ files = last.before

\* C27: every public operation comes back with a ToolResult, whatever the
\* command or the file access did; a timeout, a command that is not found
\* and a path outside the root give success false with an error, and
\* nothing is raised to the caller.
C27_AlwaysToolResult ==
    last.op \notin {"none", "clear_logs", "clear_history"} =>
        /\ last.call.returned
        /\ "error" \in DOMAIN last.call.result
        /\ (\/ /\ RunsCommand
               /\ \/ last.args.command.fault = "not_found"
                  \/ Exceeds(cmd_timeout(last.args.timeout, adapter.timeout))
            \/ /\ last.op \in {"repo.tree", "repo.search", "repo.read", "repo.diff"}
               /\ ~validate_path(last.args.path).ok) =>
               /\ ~last.call.result.success
               /\ last.call.result.error.kind # "none"

\* what holds of C27: only the operations that look for a test framework
\* raise
C27_OthersReturn ==
    last.op \notin {"none", "clear_logs", "clear_history",
                    "shell.detect_test_framework", "shell.run_tests"} => C27_AlwaysToolResult

\* C28: the operation log of an adapter only grows: the log before a step
\* is a prefix of the log after it, and every tool call adds at least one
\* entry.
C28_LogAppendOnly ==
    [][/\ Len(tool_logs') >= Len(tool_logs)
       /\ SubSeq(tool_logs', 1, Len(tool_logs)) = tool_logs
       /\ last'.op \notin {"clear_logs", "clear_history"}
             => Len(tool_logs') > Len(tool_logs)]_vars

\* what holds of C28: every step other than clear_logs and clear_history
\* extends the log
C28_CallsAppend ==
    [][last'.op \notin {"clear_logs", "clear_history"} =>
          /\ Len(tool_logs') > Len(tool_logs)
          /\ SubSeq(tool_logs', 1, Len(tool_logs)) = tool_logs]_vars

\* a hunk without the empty text after the last newline of the patch
Content(hunk) == SelectSeq(hunk, LAMBDA l : l.kind # "")

\* the file patches the sections secs stand for
Expected(secs) ==
    [i \in DOMAIN secs |->
        [path |-> secs[i].path,
         hunks |-> [h \in 1..secs[i].hunks |-> <<Header(i, h), Line("+")>>]]]

\* the file patches as parsed, hunk contents only
Parsed(file_patches) ==
    [i \in DOMAIN file_patches |->
        [path |-> file_patches[i].path,
         hunks |-> [h \in DOMAIN file_patches[i].hunks |->
                       Content(file_patches[i].hunks[h])]]]

\* C29: _parse_patch on a text of k file sections, each introduced by a
\* "diff --git" line or by its "---" and "+++" lines alone, returns k file
\* patches, the i-th with the target path and the hunks, in order, of the
\* i-th section.
C29_SectionsParsed ==
    last.op = "repo._parse_patch" =>
        Parsed(last.call.result) = Expected(last.args.sections)

\* what holds of C29: a text whose sections after the first all start with
\* "diff --git" is parsed section by section
C29_GitSectionsParsed ==
    last.op = "repo._parse_patch"
        /\ (\A i \in DOMAIN last.args.sections : i > 1 => last.args.sections[i].git) =>
            Parsed(last.call.result) = Expected(last.args.sections)

\* C30: apply_patch with dry_run true changes no file and, for a patch
\* with file sections inside the root, reports the path and the number of
\* hunks of every section.
C30_DryRunReports ==
    last.op = "repo.apply_patch" /\ last.args.dry_run =>
        /\ files = last.before
        /\ last.writes = {}
        /\ Len(last.args.sections) > 0 /\ Outside = {} =>
               /\ last.call.returned /\ last.call.result.success
               /\ [i \in DOMAIN last.call.result.output.files |->
                      [path |-> last.call.result.output.files[i].file,
                       hunks |-> last.call.result.output.files[i].hunks]]
                  = [i \in DOMAIN last.args.sections |->
                        [path |-> last.args.sections[i].path,
                         hunks |-> last.args.sections[i].hunks]]

\* what holds of C30: a dry run reads and writes no file
C30_DryRunChangesNothing ==
    last.op = "repo.apply_patch" /\ last.args.dry_run =>
        files = last.before /\ last.reads = {} /\ last.writes = {}

\* the tickets that have a sandbox directory on disk
Sandboxed == {t \in DOMAIN sandbox_path : sandbox_path[t] \in dirs}

\* C32: there is one sandbox per ticket in flight: at every moment the
\* number of sandbox directories that exist is at most the number of
\* tickets whose unit of work is running, and so at most max_runners.
C32_OneSandboxPerRunning ==
    /\ Cardinality(dirs) <= Cardinality(Running)
    /\ Cardinality(dirs) <= max_runners

\* what holds of C32: a sandbox belongs to a ticket of the wave being run
\* whose call was started and whose result is not yet collected, distinct
\* tickets have distinct sandboxes and never more than max_runners units
\* of work run
C32_SandboxUntilCollected ==
    /\ \A d \in dirs :
          /\ cur >= 1 /\ d \in Range(waves[cur])
          /\ fut[d] \in {"started", "sandboxed", "returned_ok", "returned_failed"}
          /\ sandbox_path[d] = d
    /\ Cardinality(Running) <= max_runners

\* the dependencies of ticket t that are tickets
DepsIn(t) == {d \in TicketOf(t).dependencies : \E i \in DOMAIN tickets : tickets[i].id = d}

\* C37: the execute_ticket call of a ticket starts only when every ticket
\* it depends on has finished executing and has its result in results,
\* whether that result is a success or a failure.
C37_DependenciesFirst ==
    [][\A t \in DOMAIN fut :
          fut[t] = "queued" /\ fut'[t] = "started" =>
              \A d \in DepsIn(t) :
                  /\ d \in DOMAIN fut
                  /\ fut[d] = "collected"
                  /\ Cardinality(Result(d)) = 1]_vars

C37_Witness ==
    \E t \in DOMAIN fut :
        /\ fut[t] = "started"
        /\ \E d \in DepsIn(t) :
              /\ fault[d] # "none"
              /\ \E r \in Result(d) : ~r.success

\* the tickets whose execute_ticket call was made
Executed == {t \in DOMAIN fut : fut[t] # "none" /\ fut[t] # "queued"}

\* C38: in the summary completed + failed + pending equals total: no
\* ticket is in_progress or needs_review when the summary is built, also
\* after a stop request, and every executed ticket has exactly one review.
C38_SummaryCountsAddUp ==
    pc = "done" =>
        /\ summary.tickets.completed + summary.tickets.failed
               + summary.tickets.pending = summary.tickets.total
        /\ summary.tickets.total = Len(tickets)
        /\ \A i \in DOMAIN tickets :
               tickets[i].status \in {"completed", "failed", "pending"}
        /\ \A t \in Executed :
               Cardinality({rv \in reviews : rv.ticket_id = t}) = 1

C38_Witness ==
    /\ pc = "done" /\ stop_requested
    /\ summary.tickets.completed + summary.tickets.failed = 1
    /\ summary.tickets.pending >= 2
    /\ Len(tickets) > Len(fut)
    /\ Executed # {} /\ Executed # DOMAIN fut

\* the tickets whose execute_ticket call returned a result with success false
ReturnedFailure ==
    {t \in DOMAIN fut : fut[t] \in {"returned_failed", "collected"} /\ fault[t] # "none"}

\* C39: a ticket whose result has success false is never approved and
\* never completed after its execution: it is failed when the call returns
\* and stays failed through the review, whatever its criteria and counts.
C39_FailureNeverCompleted ==
    \A t \in ReturnedFailure :
        /\ TicketOf(t).status = "failed"
        /\ \A r \in Result(t) : ~r.success
        /\ \A rv \in reviews : rv.ticket_id = t => ~rv.approved

C39_Witness ==
    /\ pc = "done"
    /\ \E t \in ReturnedFailure :
          /\ fault[t] = "tests_raised"
          /\ criteria_total(TicketOf(t)) > 0
          /\ criteria_met(TicketOf(t)) = criteria_total(TicketOf(t))
          /\ TicketOf(t).status = "failed"
          /\ \E rv \in reviews : rv.ticket_id = t /\ ~rv.approved

\* C36: with the UI enabled the status reported for a ticket is terminal
\* at completed or failed: once a ticket was reported as completed or as
\* failed, every later report for it carries that same status.
C36_ReportedStatusTerminal ==
    \A t \in DOMAIN ticket_updates :
        \A i, j \in DOMAIN ticket_updates[t] :
            i < j /\ ticket_updates[t][i] \in {"completed", "failed"} =>
                ticket_updates[t][j] = ticket_updates[t][i]

\* what holds of C36: the review reports completed or failed once per
\* executed ticket and nothing is reported after it
C36_ReviewReportsLast ==
    pc \in {"integrate", "done"} /\ ui_server =>
        \A t \in DOMAIN ticket_updates :
            ticket_updates[t] # <<>> =>
                /\ ticket_updates[t][Len(ticket_updates[t])] = TicketOf(t).status
                /\ TicketOf(t).status \in {"completed", "failed"}
\* C33: every ShellTools.run call that comes back appends exactly one record
\* to the command history, after the records of the earlier calls, and no
\* step of the instance changes or removes a record that the history holds.
C33_HistoryAppendOnly ==
    [][/\ Len(command_history') >= Len(command_history)
       /\ SubSeq(command_history', 1, Len(command_history)) = command_history
       /\ (last'.op = "shell.run" /\ last'.call.returned)
             => Len(command_history') = Len(command_history) + 1]_vars

\* what holds of C33: every step other than clear_history keeps the records
\* of the history in place, and a run call that comes back adds one record
C33_RunAppendsOne ==
    [][last'.op # "clear_history" =>
          /\ Len(command_history') >= Len(command_history)
          /\ SubSeq(command_history', 1, Len(command_history)) = command_history
          /\ (last'.op = "shell.run" /\ last'.call.returned)
                => Len(command_history') = Len(command_history) + 1]_vars

\* the framework was detected and its test command ran to an exit code
CommandRan ==
    /\ last.op = "runner._run_tests"
    /\ last.call.returned
    /\ detect_test_framework(last.args.env).call.returned
    /\ detect_test_framework(last.args.env).call.result.success
    /\ last.args.command.fault = "none"
    /\ last.args.command.dur.ends

\* the counts that the output of the test command spells
CountsOfRun ==
    parse_test_output(last.args.report,
                      detect_test_framework(last.args.env).call.result.output.framework)

SameCounts(r, c) ==
    /\ r.total = c.total
    /\ r.passed = c.passed
    /\ r.failed = c.failed
    /\ r.skipped = c.skipped

\* C34: Runner._run_tests returns the simulated record only when no framework
\* is detected; when a framework is detected and its test command ran, with
\* whatever exit code, the counts returned are the counts of that run.
C34_SimulatedOnlyWithoutFramework ==
    (last.op = "runner._run_tests" /\ last.call.returned) =>
        /\ last.call.result = SimulatedRecord
              => ~detect_test_framework(last.args.env).call.result.success
        /\ CommandRan => SameCounts(last.call.result, CountsOfRun)

\* what holds of C34: the counts are those of the run when the test command
\* exits with code 0, and the simulated record is what comes back when no
\* framework is detected
C34_CountsOfPassingRun ==
    (last.op = "runner._run_tests" /\ last.call.returned) =>
        /\ (CommandRan /\ last.args.command.code = 0)
              => SameCounts(last.call.result, CountsOfRun)
        /\ ~detect_test_framework(last.args.env).call.result.success
              => last.call.result = SimulatedRecord

\* a run of pytest that exits with code 1 after one test passed and one failed
C34_FailingRun ==
    /\ CommandRan
    /\ last.args.command.code = 1
    /\ last.args.report = [passed |-> Some(1), failed |-> Some(1), skipped |-> None]
    /\ last.call.result = SimulatedRecord

RECURSIVE Walk(_, _, _, _)
\* the body of a hunk applied to lines from line pos on, out being the lines
\* produced so far: a context line and a removed line must be the line at
\* pos; ok is FALSE when one of them is not
Walk(lines, pos, body, out) ==
    IF body = <<>>
    THEN [ok |-> TRUE, lines |-> out \o SubSeq(lines, pos, Len(lines))]
    ELSE IF Head(body).kind = "+"
    THEN Walk(lines, pos, Tail(body), Append(out, Head(body).text))
    ELSE IF pos > Len(lines) \/ lines[pos] # Head(body).text
    THEN [ok |-> FALSE, lines |-> lines]
    ELSE IF Head(body).kind = "-"
    THEN Walk(lines, pos + 1, Tail(body), out)
    ELSE Walk(lines, pos + 1, Tail(body), Append(out, lines[pos]))

\* the hunk applied at its recorded line
AtOffset(lines, hunk) ==
    Walk(lines, hunk.start, hunk.body, SubSeq(lines, 1, hunk.start - 1))

TargetFile == <<"repo", "f">>

HunkApplied ==
    /\ last.op = "repo.apply_patch"
    /\ "hunk" \in DOMAIN last.args
    /\ last.call.returned

\* C31: apply_patch with dry_run=false applies a hunk at its recorded line:
\* added lines are inserted there, removed lines are deleted, and a hunk
\* whose context or removed lines are not the lines of the file makes the
\* call return an error.
C31_HunkAppliedAtOffset ==
    HunkApplied =>
        LET want == AtOffset(last.before[TargetFile], last.args.hunk) IN
        IF want.ok
        THEN last.call.result.success /\ files[TargetFile] = want.lines
        ELSE ~last.call.result.success

\* what holds of C31: the call succeeds and the file is its old lines
\* followed by the added lines of the hunk
C31_AddedLinesAppended ==
    HunkApplied =>
        /\ last.call.result.success
        /\ files[TargetFile] =
              last.before[TargetFile]
                 \o [k \in DOMAIN Added(<<Line("@@")>> \o last.args.hunk.body) |->
                       Added(<<Line("@@")>> \o last.args.hunk.body)[k].text]

\* a hunk that removes the first line of the file and leaves it there
C31_RemovedLineKept ==
    /\ HunkApplied
    /\ last.args.hunk = [start |-> 1, body |-> <<[kind |-> "-", text |-> "a"]>>]
    /\ last.before[TargetFile] = <<"a", "b">>
    /\ files[TargetFile] = <<"a", "b">>
    /\ last.call.result.success

\* the names on the paths of a tree
Components(entries) ==
    {e.name : e \in entries} \cup UNION {{c.name : c \in e.children} : e \in entries}

SandboxCreated == last.op = "runner.create_sandbox"

\* C35: after create_sandbox no path of the sandbox has a component named
\* .git, __pycache__, node_modules, venv or env, every passthrough dotfile at
\* the top of the repository is in the sandbox, and the repository is as it
\* was.
C35_SandboxExcludesArtifacts ==
    SandboxCreated =>
        /\ Components(files.sandbox) \cap ({".git"} \cup SkippedDirs) = {}
        /\ \A e \in files.repo : e.name \in ALLOWED_DOTFILES =>
              \E d \in files.sandbox : d.name = e.name /\ d.kind = e.kind
        /\ files.repo = last.before.repo

\* what holds of C35: no path of the sandbox has a component named .git or a
\* directory named __pycache__, no directory at the top of the sandbox is
\* named node_modules, venv or env, the passthrough dotfiles are there and
\* the repository is as it was
C35_TopLevelExclusions ==
    SandboxCreated =>
        /\ ".git" \notin Components(files.sandbox)
        /\ \A e \in files.sandbox :
              /\ ~(e.kind = "dir" /\ e.name \in SkippedDirs)
              /\ \A c \in e.children : ~(c.kind = "dir" /\ c.name = "__pycache__")
        /\ \A e \in files.repo : e.name \in ALLOWED_DOTFILES =>
              \E d \in files.sandbox : d.name = e.name /\ d.kind = e.kind
        /\ files.repo = last.before.repo

\* a node_modules directory inside src that is copied to the sandbox
C35_NestedCopied ==
    /\ SandboxCreated
    /\ \E e \in files.sandbox :
          /\ e.name = "src"
          /\ [name |-> "node_modules", kind |-> "dir"] \in e.children

====
